---- MODULE Spec2Model ----
(***************************************************************************)
(* Sats Miner (src/game.js, the revision at lines 1623-4255): the Level    *)
(* grid, the Drill movement / pipe state machine and the PlayState         *)
(* bookkeeping that the drill's pellet callback drives.                    *)
(*                                                                         *)
(* Units.  Positions are whole pixels.  Time is counted in milliseconds    *)
(* (the unit of the frame timestamps, gameLoop 4245-4247); the frame times *)
(* in DTs are multiples of 100 ms, for which speed * dt and the retract    *)
(* step retractSpeed * (1 + 15 * min(1, hold)^2) * dt are whole pixels.    *)
(* The canvas is taken to be exactly as large as the grid, so that         *)
(* offsetX = offsetY = 0 (Level.constructor, 1955-1959).                   *)
(* A record [x, y] is a pixel point or a tile, as named.  NoTile stands    *)
(* for a null destinationTile / a null pixelToTile result.                 *)
(***************************************************************************)
EXTENDS Integers, Sequences, FiniteSets, TLC

VARIABLES
  level,        \* Level: [tiles, pelletCount]
  drill,        \* Drill: record of the fields set in Drill.constructor
  score,        \* PlayState.score
  levelComplete,\* PlayState.levelComplete
  callbacks,    \* the onPelletCollected invocations made by the last step
  lastOp,       \* the handler the last step ran
  probe,        \* the last direct Level.removePelletAtTile call and its result
  lives,        \* PlayState.lives
  remainingTime,\* PlayState.remainingTime, in milliseconds
  timeExpired,  \* PlayState.timeExpired
  enemies,      \* PlayState.enemies: a sequence of Enemy records
  gameOver,     \* the game has switched to GameOverState
  frames,       \* the number of PlayState.update calls made so far
  opening       \* the scripted opening of the game: [script, start]

vars == <<level, drill, score, levelComplete, callbacks, lastOp, probe,
          lives, remainingTime, timeExpired, enemies, gameOver, frames,
          opening>>

playVars == <<lives, remainingTime, timeExpired, enemies, gameOver, frames,
              opening>>

----------------------------------------------------------------------------
(* Bounds of the exploration *)

\* Ticks are explored while the drill's tile is within this many tiles
\* (Manhattan) of the entry tile; beyond it only retraction is explored.
MaxReach == 2

\* Frame times dt drawn by a tick, in milliseconds.
DTs == {100}

----------------------------------------------------------------------------
(* Program constants *)

MsPerSecond == 1000
tileSize == 32
speed == 200
LEVEL_COMPLETE_BONUS == 1000
PELLET_SCORE == 50

RawMap ==
  << <<"#","#","#","#","#","#","#","#","#","#","#","#","#","#","#","#","#","#","#","#","#","#","#","#","#","#","#","#","#","#">>,
     <<".",".","O",".",".",".",".","E",".",".",".",".","O",".",".",".",".","E",".",".",".",".","O",".",".",".",".",".",".",".">>,
     <<"#","#","#",".","#","#","#","#","#","#","#",".","#","#","#","#","#","#","#","#","#",".","#","#","#","#","#","#","#","#">>,
     <<".",".","O",".",".","E",".",".",".",".","O",".",".",".","E",".",".",".",".","O",".",".","E",".",".",".",".",".",".",".">>,
     <<"#","#","#","#","#","#",".","#","#","#","#","#","#","#","#","#",".","#","#","#","#","#","#","#",".","#","#","#","#","#">>,
     <<".",".","E",".",".",".",".","O",".",".",".",".","E",".",".",".",".","O",".",".",".",".","E",".",".",".",".",".",".",".">>,
     <<"#","#","#","#","#",".","#","#","#","#","#","#","#","#",".","#","#","#","#","#","#","#",".","#","#","#","#","#","#","#">>,
     <<".",".",".",".","O",".",".",".",".","E",".",".",".",".","O",".",".",".",".","E",".",".",".",".","O",".",".",".",".",".">>,
     <<"#","#","#","#","#","#","#","#",".","#","#","#","#","#","#","#","#","#",".","#","#","#","#","#","#","#","#","#","#","#">>,
     <<".",".","O",".",".",".","E",".",".",".",".","O",".",".",".","E",".",".",".",".","O",".",".",".","E",".",".",".",".",".">>,
     <<"#","#","#","#",".","#","#","#","#","#","#","#","#",".","#","#","#","#","#",".","#","#","#","#","#",".","#","#","#","#">>,
     <<".",".",".",".","E",".",".",".",".","O",".",".",".",".","E",".",".",".",".","O",".",".",".",".","E",".",".",".",".",".">>,
     <<"#","#","#","#","#","#","#",".","#","#","#","#","#","#","#",".","#","#","#","#","#","#","#",".","#","#","#","#","#","#">>,
     <<".",".","E",".",".",".",".","O",".",".",".",".","E",".",".",".",".","O",".",".",".",".","E",".",".",".",".",".",".",".">>,
     <<"#","#","#","#","#",".","#","#","#","#","#","#",".","#","#","#","#","#","#","#",".","#","#","#","#","#","#","#","#","#">>,
     <<".",".",".",".","O",".",".",".",".","E",".",".",".",".","O",".",".",".",".","E",".",".",".",".","O",".",".",".",".",".">>,
     <<"#","#","#","#","#","#","#","#","#","#","#","#","#","#","#","#","#","#","#","#","#","#","#","#","#","#","#","#","#","#">> >>

Height == Len(RawMap)
Width == Len(RawMap[1])
canvasWidth == Width * tileSize
canvasHeight == Height * tileSize

Max(a, b) == IF a >= b THEN a ELSE b
Min(a, b) == IF a <= b THEN a ELSE b
Abs(a) == IF a >= 0 THEN a ELSE -a
Sign(a) == IF a > 0 THEN 1 ELSE IF a < 0 THEN -1 ELSE 0

\* Math.sqrt / Math.hypot rounded down to a whole pixel.
RECURSIVE SqrtFrom(_, _)
SqrtFrom(n, r) == IF (r + 1) * (r + 1) > n THEN r ELSE SqrtFrom(n, r + 1)
Isqrt(n) == SqrtFrom(n, 0)

\* a / b rounded toward zero (b > 0).
DivTrunc(a, b) == IF a >= 0 THEN a \div b ELSE -((-a) \div b)

\* sqrt(dx^2 + dy^2) <= m, computed without leaving 32 bits: the distance
\* is at most |dx| + |dy| and at least each of them.
DistLeq(dx, dy, m) ==
  \/ Abs(dx) + Abs(dy) <= m
  \/ /\ Abs(dx) <= m
     /\ Abs(dy) <= m
     /\ dx * dx + dy * dy <= m * m

\* The one element of a one-element set: The({e(v) : v \in {x}}) is e(x)
\* with x evaluated once.
The(S) == CHOOSE v \in S : TRUE

Pt(px, py) == [x |-> px, y |-> py]
NoTile == Pt(-1, -1)
Zero == Pt(0, 0)
Dirs == {Pt(0, -1), Pt(0, 1), Pt(-1, 0), Pt(1, 0)}

----------------------------------------------------------------------------
(* Level *)

offsetX == Max(0, (canvasWidth - Width * tileSize) \div 2)
offsetY == Max(0, canvasHeight - Height * tileSize)

\* Mutant: the constructor's grid with the enemy-spawn markers left in.
InitialTiles_KeepsMarkers ==
  [r \in 1..Height |-> [c \in 1..Width |-> RawMap[r][c]]]

\* Level.constructor, the grid: enemy-spawn markers become open cells.
InitialTiles ==
  [r \in 1..Height |->
     [c \in 1..Width |-> IF RawMap[r][c] = "E" THEN "." ELSE RawMap[r][c]]]

\* Level.constructor, the pellet count: one per "O" of the raw map.
InitialPelletCount ==
  Cardinality({rc \in (1..Height) \X (1..Width) : RawMap[rc[1]][rc[2]] = "O"})

\* Level.getTile: the cell, or "null" outside the grid.
getTile(lvl, tx, ty) ==
  IF ty < 0 \/ ty >= Height \/ tx < 0 \/ tx >= Width
    THEN "null"
    ELSE lvl.tiles[ty + 1][tx + 1]

isTunnelTile(tile) == tile = "." \/ tile = "O"

\* Level.findEntryTile: the open cell of row 1 nearest the centre column,
\* the left one first.
findEntryTile ==
  LET topRow == 1
      centerCol == Width \div 2
      open(c) == c >= 0 /\ c < Width /\ InitialTiles[topRow + 1][c + 1] # "#"
      offs == {o \in 0..(Width - 1) : open(centerCol - o) \/ open(centerCol + o)}
  IN IF offs = {} THEN Pt(1, topRow)
     ELSE LET o == CHOOSE m \in offs : \A n \in offs : m <= n
          IN IF open(centerCol - o) THEN Pt(centerCol - o, topRow)
             ELSE Pt(centerCol + o, topRow)

tileToPixelCenter(tx, ty) ==
  Pt(offsetX + tx * tileSize + tileSize \div 2,
     offsetY + ty * tileSize + tileSize \div 2)

pixelToTile(px, py) ==
  LET tx == (px - offsetX) \div tileSize
      ty == (py - offsetY) \div tileSize
  IN IF tx < 0 \/ ty < 0 \/ tx >= Width \/ ty >= Height THEN NoTile
     ELSE Pt(tx, ty)

entryTile == findEntryTile

wellPosition ==
  The({Pt(entryCenter.x, entryCenter.y - (tileSize * 3) \div 2) :
         entryCenter \in {The({tileToPixelCenter(e.x, e.y) : e \in {entryTile}})}})


\* Mutant: removePelletAtTile that forgets to decrement pelletCount.
removePelletAtTile_NoDecrement(lvl, tx, ty) ==
  IF ty < 0 \/ ty >= Height \/ tx < 0 \/ tx >= Width
    THEN [level |-> lvl, result |-> FALSE]
  ELSE IF lvl.tiles[ty + 1][tx + 1] = "O"
    THEN [level |-> [tiles |-> [lvl.tiles EXCEPT ![ty + 1][tx + 1] = "."],
                     pelletCount |-> lvl.pelletCount],
          result |-> TRUE]
  ELSE [level |-> lvl, result |-> FALSE]

\* Mutant: removePelletAtTile that leaves the pellet in the cell.
removePelletAtTile_KeepsCell(lvl, tx, ty) ==
  IF ty < 0 \/ ty >= Height \/ tx < 0 \/ tx >= Width
    THEN [level |-> lvl, result |-> FALSE]
  ELSE IF lvl.tiles[ty + 1][tx + 1] = "O"
    THEN [level |-> [tiles |-> lvl.tiles,
                     pelletCount |-> Max(0, lvl.pelletCount - 1)],
          result |-> TRUE]
  ELSE [level |-> lvl, result |-> FALSE]

\* Level.removePelletAtTile: the level afterwards and the value returned.
removePelletAtTile(lvl, tx, ty) ==
  IF ty < 0 \/ ty >= Height \/ tx < 0 \/ tx >= Width
    THEN [level |-> lvl, result |-> FALSE]
  ELSE IF lvl.tiles[ty + 1][tx + 1] = "O"
    THEN [level |-> [tiles |-> [lvl.tiles EXCEPT ![ty + 1][tx + 1] = "."],
                     pelletCount |-> Max(0, lvl.pelletCount - 1)],
          result |-> TRUE]
  ELSE [level |-> lvl, result |-> FALSE]

InitLevel == [tiles |-> InitialTiles, pelletCount |-> InitialPelletCount]

----------------------------------------------------------------------------
(* Drill *)

retractSpeed == speed * 2

\* Drill.constructor (facing stands for facingAngle: PI / 2 is straight down).
NewDrill ==
  The({[x |-> w.x, y |-> w.y,
        pipePoints |-> <<Pt(w.x, w.y)>>,
        currentTileX |-> e.x, currentTileY |-> e.y,
        dirX |-> 0, dirY |-> 0,
        intentDirX |-> 0, intentDirY |-> 0,
        pendingDirX |-> 0, pendingDirY |-> 0,
        destinationTile |-> NoTile,
        isRetracting |-> FALSE,
        facing |-> Pt(0, 1),
        lastForwardX |-> 0, lastForwardY |-> 0,
        tileTrail |-> <<>>,
        isDocked |-> TRUE,
        retractHoldTime |-> 0,
        onPelletCollected |-> TRUE] : w \in {wellPosition}, e \in {entryTile}})

Last(s) == s[Len(s)]
Front(s) == SubSeq(s, 1, Len(s) - 1)
SetLast(s, e) == [s EXCEPT ![Len(s)] = e]

updateHeadPipePoint(d) ==
  LET headPoint == Pt(d.x, d.y)
  IN IF Len(d.pipePoints) = 0
       THEN [d EXCEPT !.pipePoints = <<headPoint>>]
     ELSE IF Len(d.pipePoints) = 1
       THEN IF d.pipePoints[1] = headPoint THEN d
            ELSE [d EXCEPT !.pipePoints = Append(@, headPoint)]
     ELSE [d EXCEPT !.pipePoints = SetLast(@, headPoint)]

syncCurrentTile(d) ==
  The({IF tileCoords = NoTile THEN d
       ELSE [d EXCEPT !.currentTileX = tileCoords.x,
                      !.currentTileY = tileCoords.y] :
         tileCoords \in {pixelToTile(d.x, d.y)}})

refreshDockedState(d) ==
  LET noPipeLaid == Len(d.tileTrail) = 0 /\ Len(d.pipePoints) <= 1
  IN [d EXCEPT !.isDocked =
        /\ ~d.isRetracting
        /\ d.destinationTile = NoTile
        /\ Pt(d.currentTileX, d.currentTileY) = entryTile
        /\ noPipeLaid]

\* Mutant: setDirection that records the direction during a retraction too.
setDirection_NoGuard(d, dx, dy) ==
  [d EXCEPT !.intentDirX = dx, !.intentDirY = dy,
            !.pendingDirX = dx, !.pendingDirY = dy]

\* Mutant: setDirection that queues: a direction still pending is kept and
\* the new one is only held behind it.
setDirection_Queues(d, dx, dy) ==
  IF d.isRetracting THEN d
  ELSE IF d.pendingDirX # 0 \/ d.pendingDirY # 0
    THEN [d EXCEPT !.intentDirX = dx, !.intentDirY = dy]
  ELSE [d EXCEPT !.intentDirX = dx, !.intentDirY = dy,
                 !.pendingDirX = dx, !.pendingDirY = dy]

setDirection(d, dx, dy) ==
  IF d.isRetracting THEN d
  ELSE [d EXCEPT !.intentDirX = dx, !.intentDirY = dy,
                 !.pendingDirX = dx, !.pendingDirY = dy]

\* Mutant: startRetract without the test for a pipe of one point.
startRetract_NoGuard(d) ==
  updateHeadPipePoint(
    [d EXCEPT !.isRetracting = TRUE, !.retractHoldTime = 0,
              !.dirX = 0, !.dirY = 0,
              !.pendingDirX = 0, !.pendingDirY = 0,
              !.intentDirX = 0, !.intentDirY = 0,
              !.destinationTile = NoTile,
              !.lastForwardX = 0, !.lastForwardY = 0])

startRetract(d) ==
  IF Len(d.pipePoints) <= 1 THEN d
  ELSE updateHeadPipePoint(
         [d EXCEPT !.isRetracting = TRUE, !.retractHoldTime = 0,
                   !.dirX = 0, !.dirY = 0,
                   !.pendingDirX = 0, !.pendingDirY = 0,
                   !.intentDirX = 0, !.intentDirY = 0,
                   !.destinationTile = NoTile,
                   !.lastForwardX = 0, !.lastForwardY = 0])

\* Mutant: stopRetract that also moves the head to the centre of its tile.
stopRetract_SnapsToTile(d) ==
  IF ~d.isRetracting THEN d
  ELSE The({The({updateHeadPipePoint([s EXCEPT !.x = c.x, !.y = c.y]) :
                   c \in {tileToPixelCenter(s.currentTileX, s.currentTileY)}}) :
              s \in {syncCurrentTile([d EXCEPT !.isRetracting = FALSE])}})

stopRetract(d) ==
  IF ~d.isRetracting THEN d
  ELSE syncCurrentTile(updateHeadPipePoint([d EXCEPT !.isRetracting = FALSE]))

getCurrentTileCenter(d) == tileToPixelCenter(d.currentTileX, d.currentTileY)

\* Math.hypot(dx, dy) <= 1 on whole pixels.
snapToCenterIfClose(d, center) ==
  LET dx == center.x - d.x
      dy == center.y - d.y
  IN IF dx * dx + dy * dy <= 1
       THEN IF d.destinationTile = NoTile
              THEN [d EXCEPT !.x = center.x, !.y = center.y, !.dirX = 0, !.dirY = 0]
              ELSE [d EXCEPT !.x = center.x, !.y = center.y]
       ELSE d

\* tileTrail.push(tile) unless tile is already the last entry.
pushTrail(trail, tile) ==
  IF Len(trail) = 0 \/ Last(trail) # tile THEN Append(trail, tile) ELSE trail

updateFacingFromVector(d, dx, dy) ==
  IF dx = 0 /\ dy = 0 THEN d ELSE [d EXCEPT !.facing = Pt(dx, dy)]

handleInitialDrop(d, center) ==
  IF d.destinationTile # NoTile \/ d.dirX # 0 \/ d.dirY # 0 THEN d
  ELSE IF ~(d.pendingDirY = 1 \/ d.intentDirY = 1) THEN d
  ELSE IF center.y - d.y > 1
    THEN [updateFacingFromVector(d, 0, 1) EXCEPT
            !.dirX = 0, !.dirY = 1,
            !.destinationTile = Pt(d.currentTileX, d.currentTileY),
            !.pendingDirX = 0, !.pendingDirY = 0,
            !.lastForwardX = 0, !.lastForwardY = 1,
            !.tileTrail = pushTrail(@, Pt(d.currentTileX, d.currentTileY))]
  ELSE d

lockPerpendicularAxis(d, center) ==
  IF d.dirX # 0 THEN [d EXCEPT !.y = center.y]
  ELSE IF d.dirY # 0 THEN [d EXCEPT !.x = center.x]
  ELSE d


\* Mutant: trySetDirection without the tileTrail test.
trySetDirectionAccepts_NoTrailCheck(lvl, d, dx, dy) ==
  LET tile == getTile(lvl, d.currentTileX + dx, d.currentTileY + dy)
  IN /\ ~(dx = 0 /\ dy = 0)
     /\ d.destinationTile = NoTile
     /\ ~(/\ d.lastForwardX = -dx
          /\ d.lastForwardY = -dy
          /\ (d.lastForwardX # 0 \/ d.lastForwardY # 0))
     /\ tile # "null" /\ isTunnelTile(tile)

\* Mutant: trySetDirection without the reversal test.
trySetDirectionAccepts_NoReversalCheck(lvl, d, dx, dy) ==
  LET targetTileX == d.currentTileX + dx
      targetTileY == d.currentTileY + dy
      tile == getTile(lvl, targetTileX, targetTileY)
  IN /\ ~(dx = 0 /\ dy = 0)
     /\ d.destinationTile = NoTile
     /\ tile # "null" /\ isTunnelTile(tile)
     /\ ~(\E i \in 1..Len(d.tileTrail) :
            d.tileTrail[i] = Pt(targetTileX, targetTileY))

\* Mutant: trySetDirection accepting any in-bounds cell, walls included.
trySetDirectionAccepts_NoWallCheck(lvl, d, dx, dy) ==
  LET targetTileX == d.currentTileX + dx
      targetTileY == d.currentTileY + dy
      tile == getTile(lvl, targetTileX, targetTileY)
  IN /\ ~(dx = 0 /\ dy = 0)
     /\ d.destinationTile = NoTile
     /\ ~(/\ d.lastForwardX = -dx
          /\ d.lastForwardY = -dy
          /\ (d.lastForwardX # 0 \/ d.lastForwardY # 0))
     /\ tile # "null"
     /\ ~(\E i \in 1..Len(d.tileTrail) :
            d.tileTrail[i] = Pt(targetTileX, targetTileY))

\* Drill.trySetDirection, the value returned.
trySetDirectionAccepts(lvl, d, dx, dy) ==
  LET targetTileX == d.currentTileX + dx
      targetTileY == d.currentTileY + dy
      tile == getTile(lvl, targetTileX, targetTileY)
  IN /\ ~(dx = 0 /\ dy = 0)
     /\ d.destinationTile = NoTile
     /\ ~(/\ d.lastForwardX = -dx
          /\ d.lastForwardY = -dy
          /\ (d.lastForwardX # 0 \/ d.lastForwardY # 0))
     /\ tile # "null" /\ isTunnelTile(tile)
     /\ ~(\E i \in 1..Len(d.tileTrail) :
            d.tileTrail[i] = Pt(targetTileX, targetTileY))

\* Drill.trySetDirection, the drill afterwards.
trySetDirection(lvl, d, dx, dy) ==
  IF trySetDirectionAccepts(lvl, d, dx, dy)
    THEN [updateFacingFromVector(d, dx, dy) EXCEPT
            !.dirX = dx, !.dirY = dy,
            !.destinationTile = Pt(d.currentTileX + dx, d.currentTileY + dy),
            !.lastForwardX = dx, !.lastForwardY = dy]
    ELSE d

\* Drill.tryApplyPendingDirection, the value returned.
tryApplyPendingAccepts(lvl, d) ==
  /\ ~(d.pendingDirX = 0 /\ d.pendingDirY = 0)
  /\ trySetDirectionAccepts(lvl, d, d.pendingDirX, d.pendingDirY)

\* Mutant: tryApplyPendingDirection that forgets a rejected direction.
tryApplyPendingDirection_DropsRejected(lvl, d) ==
  [trySetDirection(lvl, d, d.pendingDirX, d.pendingDirY) EXCEPT
     !.pendingDirX = 0, !.pendingDirY = 0]

tryApplyPendingDirection(lvl, d) ==
  IF tryApplyPendingAccepts(lvl, d)
    THEN [trySetDirection(lvl, d, d.pendingDirX, d.pendingDirY) EXCEPT
            !.pendingDirX = 0, !.pendingDirY = 0]
    ELSE d

tryContinueForward(lvl, d) ==
  IF d.intentDirX = 0 /\ d.intentDirY = 0 THEN d
  ELSE trySetDirection(lvl, d, d.intentDirX, d.intentDirY)

\* "tryApplyPendingDirection() || tryContinueForward()" and
\* "if (!tryApplyPendingDirection()) tryContinueForward()".
chooseNextDirection(lvl, d) ==
  IF tryApplyPendingAccepts(lvl, d) THEN tryApplyPendingDirection(lvl, d)
  ELSE tryContinueForward(lvl, d)

\* Mutant: advanceTowardDestination that stops at the tile centre it arrives
\* at and leaves the next direction to the next tick.
advanceTowardDestination_NoChain(lvl, d, dt) ==
  IF d.destinationTile = NoTile THEN d
  ELSE
    LET destCenter == tileToPixelCenter(d.destinationTile.x, d.destinationTile.y)
        moveDist == (speed * dt) \div MsPerSecond
        dx == destCenter.x - d.x
        dy == destCenter.y - d.y
        cur == tileToPixelCenter(d.currentTileX, d.currentTileY)
    IN IF DistLeq(dx, dy, moveDist)
         THEN [d EXCEPT !.x = destCenter.x, !.y = destCenter.y,
                        !.currentTileX = d.destinationTile.x,
                        !.currentTileY = d.destinationTile.y,
                        !.destinationTile = NoTile,
                        !.dirX = 0, !.dirY = 0]
       ELSE IF d.dirX # 0
         THEN [d EXCEPT !.x = @ + d.dirX * moveDist, !.y = cur.y]
       ELSE IF d.dirY # 0
         THEN [d EXCEPT !.y = @ + d.dirY * moveDist, !.x = cur.x]
       ELSE d

advanceTowardDestination(lvl, d, dt) ==
  IF d.destinationTile = NoTile THEN d
  ELSE
    LET destCenter == tileToPixelCenter(d.destinationTile.x, d.destinationTile.y)
        moveDist == (speed * dt) \div MsPerSecond
        dx == destCenter.x - d.x
        dy == destCenter.y - d.y
        cur == tileToPixelCenter(d.currentTileX, d.currentTileY)
    IN IF DistLeq(dx, dy, moveDist)
         THEN chooseNextDirection(lvl,
                [d EXCEPT !.x = destCenter.x, !.y = destCenter.y,
                          !.currentTileX = d.destinationTile.x,
                          !.currentTileY = d.destinationTile.y,
                          !.destinationTile = NoTile,
                          !.dirX = 0, !.dirY = 0])
       ELSE IF d.dirX # 0
         THEN [d EXCEPT !.x = @ + d.dirX * moveDist, !.y = cur.y]
       ELSE IF d.dirY # 0
         THEN [d EXCEPT !.y = @ + d.dirY * moveDist, !.x = cur.x]
       ELSE d

\* Mutant: trackPipeProgress that keeps the last head point as the waypoint
\* instead of overwriting it with the tile centre.
trackPipeProgress_KeepsHeadPoint(d) ==
  The({IF tileCoords = NoTile THEN updateHeadPipePoint(d)
       ELSE IF tileCoords.x = d.currentTileX /\ tileCoords.y = d.currentTileY
         THEN updateHeadPipePoint(d)
       ELSE [d EXCEPT
               !.currentTileX = tileCoords.x, !.currentTileY = tileCoords.y,
               !.tileTrail = pushTrail(@, tileCoords),
               !.pipePoints = Append(@, Pt(d.x, d.y))] :
         tileCoords \in {pixelToTile(d.x, d.y)}})

trackPipeProgress(d) ==
  The({IF tileCoords = NoTile THEN updateHeadPipePoint(d)
       ELSE IF tileCoords.x = d.currentTileX /\ tileCoords.y = d.currentTileY
         THEN updateHeadPipePoint(d)
       ELSE The({[d EXCEPT
                    !.currentTileX = tileCoords.x, !.currentTileY = tileCoords.y,
                    !.tileTrail = pushTrail(@, tileCoords),
                    !.pipePoints =
                       IF Len(@) <= 1 THEN @ \o <<center, Pt(d.x, d.y)>>
                       ELSE Append(SetLast(@, center), Pt(d.x, d.y))] :
                   center \in {tileToPixelCenter(tileCoords.x, tileCoords.y)}}) :
         tileCoords \in {pixelToTile(d.x, d.y)}})

\* Mutant: the retract step without the cap of the held time at one second.
retractMaxStep_NoCap(hold, dt) ==
  LET baseStep == (retractSpeed * dt) \div MsPerSecond
  IN baseStep + (baseStep * 15 * ((hold * hold) \div 10000)) \div 100

\* retractSpeed * (1 + 15 * min(1, hold)^2) * dt, in pixels: the step at
\* multiplier 1 plus 15 * rapidBoost^2 times it (hold and dt in
\* milliseconds; exact for the multiples of 100 ms the model draws).
retractMaxStep(hold, dt) ==
  LET rapidBoost == Min(MsPerSecond, hold)
      baseStep == (retractSpeed * dt) \div MsPerSecond
  IN baseStep
       + (baseStep * 15 * ((rapidBoost * rapidBoost) \div 10000)) \div 100

\* Mutant: the docking reset that leaves isRetracting set.
dockAfterRetract_StaysRetracting(d) ==
  The({[d EXCEPT !.retractHoldTime = 0,
                 !.currentTileX = e.x, !.currentTileY = e.y,
                 !.lastForwardX = 0, !.lastForwardY = 0,
                 !.tileTrail = <<>>] :
         e \in {entryTile}})

\* Mutant: the docking reset without clearing tileTrail and lastForward.
dockAfterRetract_KeepsTrail(d) ==
  The({[d EXCEPT !.isRetracting = FALSE, !.retractHoldTime = 0,
                 !.currentTileX = e.x, !.currentTileY = e.y] :
         e \in {entryTile}})

\* The reset both branches of retractAlongPipe apply once one point is left.
dockAfterRetract(d) ==
  The({[d EXCEPT !.isRetracting = FALSE, !.retractHoldTime = 0,
                 !.currentTileX = e.x, !.currentTileY = e.y,
                 !.lastForwardX = 0, !.lastForwardY = 0,
                 !.tileTrail = <<>>] :
         e \in {entryTile}})

retractAlongPipe(d, dt) ==
  IF Len(d.pipePoints) <= 1
    THEN LET anchor == IF Len(d.pipePoints) = 1 THEN d.pipePoints[1] ELSE Pt(d.x, d.y)
         IN dockAfterRetract(
              syncCurrentTile(updateHeadPipePoint(
                [d EXCEPT !.x = anchor.x, !.y = anchor.y])))
  ELSE
    LET target == d.pipePoints[Len(d.pipePoints) - 1]
        dx == target.x - d.x
        dy == target.y - d.y
    IN The({
         IF DistLeq(dx, dy, maxStep)
           THEN The({IF Len(popped.pipePoints) = 1 THEN dockAfterRetract(popped)
                     ELSE popped :
                  popped \in {syncCurrentTile(updateHeadPipePoint(
                     [d EXCEPT !.x = target.x, !.y = target.y,
                               !.pipePoints = Front(@),
                               !.tileTrail = IF Len(@) > 0 THEN Front(@) ELSE @]))}})
           ELSE The({syncCurrentTile(updateHeadPipePoint(
                       [d EXCEPT !.x = @ + DivTrunc(dx * maxStep, dist),
                                 !.y = @ + DivTrunc(dy * maxStep, dist)])) :
                  dist \in {IF dy = 0 THEN Abs(dx)
                            ELSE IF dx = 0 THEN Abs(dy)
                            ELSE Isqrt(dx * dx + dy * dy)}}) :
         maxStep \in {retractMaxStep(d.retractHoldTime, dt)}})

\* Drill.update up to the early returns: the drill before
\* advanceTowardDestination, or the drill the tick ends with.
updateBeforeAdvance(lvl, d, dt) ==
  IF d.isRetracting
    THEN refreshDockedState(
           retractAlongPipe([d EXCEPT !.retractHoldTime = @ + dt], dt))
  ELSE
    The({The({The({IF d2.destinationTile = NoTile
                     THEN chooseNextDirection(lvl, d2) ELSE d2 :
                d2 \in {lockPerpendicularAxis(
                          handleInitialDrop(snapToCenterIfClose(d1, center), center),
                          center)}}) :
           center \in {getCurrentTileCenter(d1)}}) :
      d1 \in {refreshDockedState([d EXCEPT !.retractHoldTime = 0])}})

\* Drill.checkPelletCollection: the level afterwards and the
\* onPelletCollected calls made.
checkPelletCollection(lvl, d) ==
  The({IF tileCoords = NoTile THEN [level |-> lvl, calls |-> <<>>]
       ELSE The({[level |-> r.level,
                  calls |-> IF r.result /\ d.onPelletCollected
                              THEN <<tileCoords>> ELSE <<>>] :
              r \in {removePelletAtTile(lvl, tileCoords.x, tileCoords.y)}}) :
         tileCoords \in {pixelToTile(d.x, d.y)}})

\* Drill.update: the drill and the level afterwards, and the
\* onPelletCollected calls made.  before is the drill at the last early
\* return; past it the tick runs advanceTowardDestination, trackPipeProgress
\* and checkPelletCollection.
update(lvl, d, dt) ==
  The({IF d.isRetracting \/ before.destinationTile = NoTile
         THEN [drill |-> before, level |-> lvl, calls |-> <<>>]
         ELSE The({The({[drill |-> after, level |-> c.level, calls |-> c.calls] :
                     c \in {checkPelletCollection(lvl, after)}}) :
                after \in {trackPipeProgress(
                             advanceTowardDestination(lvl, before, dt))}}) :
         before \in {updateBeforeAdvance(lvl, d, dt)}})

----------------------------------------------------------------------------
(* Enemy *)

\* The values Math.random() is drawn from, in thousandths.
Randoms == {0}

spawnMargin == 100
enemyRadius == Max(8, tileSize \div 4)
RESPAWN_DELAY == 4
DESTROYED_DELAY == 5

\* Enemy.startPosition
startPosition(e) ==
  IF e.direction > 0
    THEN Max(-spawnMargin, e.spawnX - spawnMargin)
    ELSE Min(canvasWidth + spawnMargin, e.spawnX + spawnMargin)

\* Enemy.activateIfReady; r is the Math.random() draw for the speed.
activateIfReady(e, r) ==
  IF e.respawnTimer <= 0
    THEN [e EXCEPT !.active = TRUE,
                   !.direction = e.initialDirection,
                   !.speed = e.baseSpeed + (r * 20) \div 1000,
                   !.x = startPosition([e EXCEPT !.direction = e.initialDirection]),
                   !.y = e.spawnY,
                   !.placed = TRUE,
                   !.respawnTimer = 0]
    ELSE e

\* Enemy.constructor: x and y stay unset (placed is FALSE) until the enemy
\* is first activated.  Times are in milliseconds.
NewEnemy(spawn, direction, enemySpeed, type, spawnDelay, r) ==
  activateIfReady(
    [spawnX |-> spawn.x, spawnY |-> spawn.y,
     initialDirection |-> direction, direction |-> direction,
     baseSpeed |-> enemySpeed, speed |-> enemySpeed,
     type |-> type, active |-> FALSE, respawnTimer |-> spawnDelay,
     placed |-> FALSE, x |-> 0, y |-> 0], r)

\* Enemy.reset with its default initialDelay = 0.
reset(e, r) ==
  activateIfReady([e EXCEPT !.respawnTimer = Max(0, 0), !.active = FALSE], r)

\* Enemy.randomRespawnDelay: 4 + Math.random() * 2 seconds.
randomRespawnDelay(r) == RESPAWN_DELAY * MsPerSecond + r * 2

\* Enemy.scheduleRespawn
scheduleRespawn(e, delay) ==
  [e EXCEPT !.active = FALSE, !.respawnTimer = delay]

\* Mutant: Enemy.update that does not count the respawn timer down.
enemyUpdate_NoCountdown(e, dt, r) ==
  IF ~e.active
    THEN activateIfReady(e, r)
    ELSE LET m == [e EXCEPT !.x = @ + (e.direction * e.speed * dt) \div MsPerSecond,
                            !.y = e.spawnY]
         IN IF m.direction > 0 /\ m.x > canvasWidth + spawnMargin
              THEN scheduleRespawn(m, randomRespawnDelay(r))
            ELSE IF m.direction < 0 /\ m.x < -spawnMargin
              THEN scheduleRespawn(m, randomRespawnDelay(r))
            ELSE m

\* Enemy.update; r is the draw of the one Math.random() call it can make.
enemyUpdate(e, dt, r) ==
  IF ~e.active
    THEN activateIfReady([e EXCEPT !.respawnTimer = @ - dt], r)
    ELSE LET m == [e EXCEPT !.x = @ + (e.direction * e.speed * dt) \div MsPerSecond,
                            !.y = e.spawnY]
         IN IF m.direction > 0 /\ m.x > canvasWidth + spawnMargin
              THEN scheduleRespawn(m, randomRespawnDelay(r))
            ELSE IF m.direction < 0 /\ m.x < -spawnMargin
              THEN scheduleRespawn(m, randomRespawnDelay(r))
            ELSE m

\* Enemy.handleDestroyed: respawn after 5 + Math.random() * 2 seconds.
handleDestroyed(e, r) ==
  scheduleRespawn(e, DESTROYED_DELAY * MsPerSecond + r * 2)

----------------------------------------------------------------------------
(* Level: enemy lanes *)

\* The columns of row ty that are not "#" (counted before "E" is rewritten).
rowOpen(ty) == {tx \in 0..(Width - 1) : RawMap[ty + 1][tx + 1] # "#"}

\* Level.constructor: enemyLaneData holds the rows that are more than 60 %
\* open.
enemyLaneRows ==
  {ty \in 0..(Height - 1) : Cardinality(rowOpen(ty)) * 10 > Width * 6}

MinOf(S) == CHOOSE v \in S : \A w \in S : v <= w
MaxOf(S) == CHOOSE v \in S : \A w \in S : v >= w

RECURSIVE SortedSeq(_)
SortedSeq(S) ==
  IF S = {} THEN <<>> ELSE <<MinOf(S)>> \o SortedSeq(S \ {MinOf(S)})

\* Level.getEnemyLanes, in PlayState.constructor's order (sorted by y).
sortedLanes ==
  [i \in 1..Cardinality(enemyLaneRows) |->
     LET yTile == SortedSeq(enemyLaneRows)[i]
     IN [y |-> tileToPixelCenter(0, yTile).y,
         leftX |-> tileToPixelCenter(MinOf(rowOpen(yTile)), yTile).x,
         rightX |-> tileToPixelCenter(MaxOf(rowOpen(yTile)), yTile).x]]

\* max(1, round(0.2 * lanes)): the deepest lanes carry type "02" enemies.
hazardLaneCount == Max(1, (2 * Len(sortedLanes) + 5) \div 10)

laneType(i) ==
  IF i > Len(sortedLanes) - hazardLaneCount THEN "02" ELSE "01"

----------------------------------------------------------------------------
(* PlayState *)

InitialLives == 3
levelTimeLimit == 150
ENEMY_SCORE == 10
pipeRadius == 4

\* Mutant: handlePelletCollected that completes the level at any pellet.
handlePelletCollected_AnyPellet(lvl, ps) ==
  LET s1 == ps.score + PELLET_SCORE
  IN IF ~ps.levelComplete
       THEN [score |-> s1 + LEVEL_COMPLETE_BONUS, levelComplete |-> TRUE]
       ELSE [score |-> s1, levelComplete |-> ps.levelComplete]

\* PlayState.handlePelletCollected, run with the level as removePelletAtTile
\* left it.
handlePelletCollected(lvl, ps) ==
  LET s1 == ps.score + PELLET_SCORE
  IN IF ~ps.levelComplete /\ lvl.pelletCount = 0
       THEN [score |-> s1 + LEVEL_COMPLETE_BONUS, levelComplete |-> TRUE]
       ELSE [score |-> s1, levelComplete |-> ps.levelComplete]

\* Drill.update with the pellet collection it ends with, on the PlayState
\* record ps; callbacks lists the onPelletCollected calls made.
drillUpdate(ps, dt) ==
  The({IF u.calls = <<>>
         THEN [ps EXCEPT !.drill = u.drill, !.level = u.level]
         ELSE The({[ps EXCEPT !.drill = u.drill, !.level = u.level,
                              !.score = h.score,
                              !.levelComplete = h.levelComplete,
                              !.callbacks = u.calls] :
                h \in {handlePelletCollected(u.level, ps)}}) :
         u \in {update(ps.level, ps.drill, dt)}})

\* PlayState.constructor: two enemies per lane, in lane order.  rs gives the
\* Math.random() draws: delay, base speed and first activation per enemy.
enemyConfig(k) ==
  LET index == (k - 1) \div 2
  IN The({IF k % 2 = 1
            THEN [spawn |-> Pt(lane.leftX, lane.y), direction |-> 1,
                  delay |-> (index % 4) * 1500, type |-> type]
            ELSE [spawn |-> Pt(lane.rightX, lane.y), direction |-> -1,
                  delay |-> 3000 + (index % 3) * 1200, type |-> type] :
            lane \in {sortedLanes[index + 1]}, type \in {laneType(index + 1)}})

EnemyCount == 2 * Len(sortedLanes)

Draws == [1..EnemyCount -> Randoms]

NewEnemies(rDelay, rSpeed, rActivate) ==
  [k \in 1..EnemyCount |->
     The({NewEnemy(config.spawn, config.direction,
                   60 + (rSpeed[k] * 40) \div 1000, config.type,
                   config.delay + rDelay[k], rActivate[k]) :
            config \in {enemyConfig(k)}})]

\* PlayState.createDrill and PlayState.resetDrillAndPipe.
createDrill == NewDrill

\* Mutant: the replacement drill is built without the pellet callback.
resetDrillAndPipe_NoCallback == [NewDrill EXCEPT !.onPelletCollected = FALSE]

resetDrillAndPipe == createDrill

\* Mutant: resetEnemies that leaves the enemies where they are.
resetEnemies_Skipped(es, rs) == es

\* PlayState.resetEnemies
resetEnemies(es, rs) == [k \in DOMAIN es |-> reset(es[k], rs[k])]

\* Mutant: handleLifeLost that does not switch to the game-over state.
handleLifeLost_NoGameOver(ps, rs) ==
  IF ps.lives <= 0 THEN ps
  ELSE IF ps.lives - 1 <= 0
    THEN [ps EXCEPT !.lives = @ - 1]
  ELSE [ps EXCEPT !.lives = @ - 1,
                  !.drill = resetDrillAndPipe,
                  !.enemies = resetEnemies(@, rs)]

\* PlayState.handleLifeLost; the switch to GameOverState sets gameOver.
handleLifeLost(ps, rs) ==
  IF ps.lives <= 0 THEN ps
  ELSE IF ps.lives - 1 <= 0
    THEN [ps EXCEPT !.lives = @ - 1, !.gameOver = TRUE]
  ELSE [ps EXCEPT !.lives = @ - 1,
                  !.drill = resetDrillAndPipe,
                  !.enemies = resetEnemies(@, rs)]

\* ---- collisions ----
\* The drill's collision geometry is in units of 1/625 pixel, in which every
\* offset the constructor derives from tileSize is a whole number.
SubPx == 25 * 25

radius == (tileSize * SubPx * 45) \div 100
bodyWidth == Min((tileSize * SubPx * 9) \div 10, (radius * 18) \div 10)
bodyLength == (bodyWidth * 18) \div 10
tipLength == (bodyWidth * 8) \div 10
bodyStartOffset == -((bodyLength * 35) \div 100)
bodyEndOffset == bodyStartOffset + bodyLength
tipEndOffset == bodyEndOffset + tipLength
headCollisionStartOffset == bodyEndOffset - (bodyWidth * 4) \div 10
headCollisionRadius == (bodyWidth * 45) \div 100

\* distancePointToSegment(px, py, ax, ay, bx, by) <= thr.  A point further
\* than thr from the segment's bounding box is rejected first, and the
\* perpendicular distance to an axis-aligned segment is read off directly,
\* so that no product leaves 32 bits.
distancePointToSegment(px, py, ax, ay, bx, by, thr) ==
  LET abx == bx - ax
      aby == by - ay
      apx == px - ax
      apy == py - ay
      abLengthSq == abx * abx + aby * aby
      dot == apx * abx + apy * aby
      cross == apx * aby - apy * abx
      span == thr + Abs(abx) + Abs(aby)
  IN IF Abs(apx) > span \/ Abs(apy) > span THEN FALSE
     ELSE IF abLengthSq = 0 \/ dot <= 0 THEN DistLeq(apx, apy, thr)
     ELSE IF dot >= abLengthSq THEN DistLeq(px - bx, py - by, thr)
     ELSE IF abx = 0 THEN Abs(apx) <= thr
     ELSE IF aby = 0 THEN Abs(apy) <= thr
     ELSE /\ Abs(cross) <= thr * (Abs(abx) + Abs(aby))
          /\ cross * cross <= thr * thr * abLengthSq

\* Drill.collidesWithHead, the two distance tests: the enemy overlaps the
\* head circle, or is within the combined radius of the body/tip segment.
touchesHead(d, enemyX, enemyY, er) ==
  LET ex == (enemyX - d.x) * SubPx
      ey == (enemyY - d.y) * SubPx
  IN \/ DistLeq(ex, ey, er * SubPx + radius)
     \/ distancePointToSegment(ex, ey,
          d.facing.x * headCollisionStartOffset,
          d.facing.y * headCollisionStartOffset,
          d.facing.x * tipEndOffset,
          d.facing.y * tipEndOffset,
          er * SubPx + headCollisionRadius)

\* Mutant: collidesWithHead without the test for a docked drill.
collidesWithHead_NoDockCheck(d, enemyX, enemyY, er) ==
  /\ pixelToTile(enemyX, enemyY) # NoTile
  /\ pixelToTile(enemyX, enemyY).y = d.currentTileY
  /\ touchesHead(d, enemyX, enemyY, er)

\* Drill.collidesWithHead, on the drill as refreshDockedState left it.
collidesWithHead(d, enemyX, enemyY, er) ==
  LET ex == (enemyX - d.x) * SubPx
      ey == (enemyY - d.y) * SubPx
  IN IF d.isDocked THEN FALSE
     ELSE IF pixelToTile(enemyX, enemyY) = NoTile
             \/ pixelToTile(enemyX, enemyY).y # d.currentTileY THEN FALSE
     ELSE IF DistLeq(ex, ey, er * SubPx + radius) THEN TRUE
     ELSE distancePointToSegment(ex, ey,
            d.facing.x * headCollisionStartOffset,
            d.facing.y * headCollisionStartOffset,
            d.facing.x * tipEndOffset,
            d.facing.y * tipEndOffset,
            er * SubPx + headCollisionRadius)

\* Mutant: enemyHitsPipe with the pipe radius alone as threshold.
enemyHitsPipe_NoEnemyRadius(d, e) ==
  /\ Len(d.pipePoints) >= 2
  /\ \E i \in 1..(Len(d.pipePoints) - 1) :
       distancePointToSegment(e.x, e.y,
         d.pipePoints[i].x, d.pipePoints[i].y,
         d.pipePoints[i + 1].x, d.pipePoints[i + 1].y,
         pipeRadius)

\* PlayState.enemyHitsPipe
enemyHitsPipe(d, e) ==
  /\ Len(d.pipePoints) >= 2
  /\ \E i \in 1..(Len(d.pipePoints) - 1) :
       distancePointToSegment(e.x, e.y,
         d.pipePoints[i].x, d.pipePoints[i].y,
         d.pipePoints[i + 1].x, d.pipePoints[i + 1].y,
         enemyRadius + pipeRadius)

\* Mutant: the loop body treating a type "02" enemy like any other.
enemyOutcome_HazardDestroyed(d, e) ==
  IF collidesWithHead(d, e.x, e.y, enemyRadius) THEN "destroyed"
  ELSE IF enemyHitsPipe(d, e) THEN "lifeLost"
  ELSE "none"

\* One turn of the loop of PlayState.handleEnemyInteractions, for an active
\* enemy e: the head destroys it, or a life is lost (a type "02" enemy
\* touches the head, or the enemy touches the pipe), or nothing happens.
enemyOutcome(d, e) ==
  IF collidesWithHead(d, e.x, e.y, enemyRadius)
    THEN IF e.type = "02" THEN "lifeLost" ELSE "destroyed"
  ELSE IF enemyHitsPipe(d, e) THEN "lifeLost"
  ELSE "none"

\* PlayState.handleEnemyInteractions from enemy k on; rs holds the
\* Math.random() draws of handleDestroyed and of the enemies' reset.
RECURSIVE handleEnemyInteractions(_, _, _)
handleEnemyInteractions(ps, k, rs) ==
  IF k > Len(ps.enemies) THEN ps
  ELSE IF ~ps.enemies[k].active THEN handleEnemyInteractions(ps, k + 1, rs)
  ELSE The({
         IF outcome = "destroyed"
           THEN handleEnemyInteractions(
                  [p1 EXCEPT !.score = @ + ENEMY_SCORE,
                             !.enemies[k] = handleDestroyed(@, rs.destroyed[k])],
                  k + 1, rs)
         ELSE IF outcome = "lifeLost" THEN handleLifeLost(p1, rs.reset)
         ELSE handleEnemyInteractions(p1, k + 1, rs) :
         p1 \in {[ps EXCEPT !.drill = refreshDockedState(@)]},
         outcome \in {enemyOutcome(refreshDockedState(ps.drill), ps.enemies[k])}})

\* Mutant: PlayState.update that never sets timeExpired.
playUpdate_NoExpiredFlag(ps, dt, rs) ==
  The({IF ~ps.levelComplete /\ p1.remainingTime <= 0 /\ ~ps.timeExpired
         THEN handleLifeLost(p1, rs.reset)
         ELSE The({handleEnemyInteractions(
                     [p2 EXCEPT !.enemies =
                        [k \in DOMAIN @ |-> enemyUpdate(@[k], dt, rs.update[k])]],
                     1, rs) :
                p2 \in {drillUpdate(p1, dt)}}) :
         p1 \in {[ps EXCEPT !.remainingTime =
                    IF ps.levelComplete THEN @ ELSE Max(0, @ - dt),
                            !.callbacks = <<>>]}})

\* PlayState.update
playUpdate(ps, dt, rs) ==
  The({IF ~ps.levelComplete /\ p1.remainingTime <= 0 /\ ~ps.timeExpired
         THEN handleLifeLost([p1 EXCEPT !.timeExpired = TRUE], rs.reset)
         ELSE The({handleEnemyInteractions(
                     [p2 EXCEPT !.enemies =
                        [k \in DOMAIN @ |-> enemyUpdate(@[k], dt, rs.update[k])]],
                     1, rs) :
                p2 \in {drillUpdate(p1, dt)}}) :
         p1 \in {[ps EXCEPT !.remainingTime =
                    IF ps.levelComplete THEN @ ELSE Max(0, @ - dt),
                            !.callbacks = <<>>]}})

----------------------------------------------------------------------------
(* Specification *)

\* No scripted opening: the keys are free from the first frame on.
NoOpening == [script |-> "none", start |-> 0]

NoProbe == [tx |-> 0, ty |-> 0, before |-> "none", result |-> FALSE, count |-> 0]

Init ==
  /\ level = InitLevel
  /\ drill = NewDrill
  /\ score = 0
  /\ levelComplete = FALSE
  /\ callbacks = <<>>
  /\ lastOp = "constructor"
  /\ probe = NoProbe
  /\ lives = InitialLives
  /\ remainingTime = levelTimeLimit * MsPerSecond
  /\ timeExpired = FALSE
  /\ \E rDelay \in Draws, rSpeed \in Draws, rActivate \in Draws :
       enemies = NewEnemies(rDelay, rSpeed, rActivate)
  /\ gameOver = FALSE
  /\ frames = 0
  /\ opening = NoOpening

Reach(d) ==
  The({Abs(d.currentTileX - e.x) + Abs(d.currentTileY - e.y) : e \in {entryTile}})

\* PlayState.onKeyDown, an arrow key.
SetDirection(dir) ==
  /\ ~gameOver
  /\ drill' = setDirection(drill, dir.x, dir.y)
  /\ callbacks' = <<>>
  /\ lastOp' = "setDirection"
  /\ UNCHANGED <<level, score, levelComplete, probe, playVars>>

\* PlayState.onKeyDown, Space.
StartRetract ==
  /\ ~gameOver
  /\ drill' = startRetract(drill)
  /\ callbacks' = <<>>
  /\ lastOp' = "startRetract"
  /\ UNCHANGED <<level, score, levelComplete, probe, playVars>>

\* PlayState.onKeyUp, Space.
StopRetract ==
  /\ ~gameOver
  /\ drill' = stopRetract(drill)
  /\ callbacks' = <<>>
  /\ lastOp' = "stopRetract"
  /\ UNCHANGED <<level, score, levelComplete, probe, playVars>>

\* One frame of Drill.update(dt), with the pellet collection it ends with.
Tick(dt) ==
  /\ drill.isRetracting \/ Reach(drill) <= MaxReach
  /\ \E ps \in {drillUpdate(
                   [level |-> level, drill |-> drill, score |-> score,
                    levelComplete |-> levelComplete, callbacks |-> <<>>], dt)} :
        /\ level' = ps.level
        /\ drill' = ps.drill
        /\ score' = ps.score
        /\ levelComplete' = ps.levelComplete
        /\ callbacks' = ps.callbacks
  /\ lastOp' = "update"
  /\ UNCHANGED <<probe, playVars>>

Next ==
  \/ \E dir \in Dirs : SetDirection(dir)
  \/ StartRetract
  \/ StopRetract
  \/ \E dt \in DTs : Tick(dt)

Spec == Init /\ [][Next]_vars

----------------------------------------------------------------------------
(* Level probe: Level.removePelletAtTile called directly on chosen tiles *)

\* Direct calls are made on the tiles with both coordinates in -1..ProbeMax
\* and on three tiles at the far edge of the grid.
ProbeMax == 4

ProbeTiles ==
  {Pt(px, py) : px \in -1..ProbeMax, py \in -1..ProbeMax}
    \cup {Pt(Width, 1), Pt(1, Height), Pt(Width - 1, Height - 1)}

RemovePellet(t) ==
  /\ level' = removePelletAtTile(level, t.x, t.y).level
  /\ probe' = [tx |-> t.x, ty |-> t.y,
               before |-> getTile(level, t.x, t.y),
               result |-> removePelletAtTile(level, t.x, t.y).result,
               count |-> level.pelletCount]
  /\ lastOp' = "removePelletAtTile"
  /\ UNCHANGED <<drill, score, levelComplete, callbacks, playVars>>

NextLevel == \E t \in ProbeTiles : RemovePellet(t)

SpecLevel == Init /\ [][NextLevel]_vars

----------------------------------------------------------------------------
(* Whole game: PlayState.update with the timer, the enemies and life loss *)

\* A frame lasts one second, or as long as the whole level timer (the tab
\* was in the background: gameLoop passes on whatever time has elapsed).  The
\* first MaxFrames frames of a game are explored.
PlayDTs == {1000, levelTimeLimit * MsPerSecond}
MaxFrames == 6

PlayTick(dt) ==
  /\ ~gameOver
  /\ drill.isRetracting \/ Reach(drill) <= MaxReach
  /\ frames < MaxFrames
  /\ \E ru \in Draws, rd \in Draws, rr \in Draws :
       \E ps \in {playUpdate(
                    [level |-> level, drill |-> drill, score |-> score,
                     levelComplete |-> levelComplete, callbacks |-> callbacks,
                     lives |-> lives, remainingTime |-> remainingTime,
                     timeExpired |-> timeExpired, enemies |-> enemies,
                     gameOver |-> gameOver],
                    dt, [update |-> ru, destroyed |-> rd, reset |-> rr])} :
          /\ level' = ps.level
          /\ drill' = ps.drill
          /\ score' = ps.score
          /\ levelComplete' = ps.levelComplete
          /\ callbacks' = ps.callbacks
          /\ lives' = ps.lives
          /\ remainingTime' = ps.remainingTime
          /\ timeExpired' = ps.timeExpired
          /\ enemies' = ps.enemies
          /\ gameOver' = ps.gameOver
  /\ frames' = frames + 1
  /\ lastOp' = "PlayState.update"
  /\ UNCHANGED <<probe, opening>>

NextPlay ==
  \/ \E dir \in Dirs : SetDirection(dir)
  \/ StartRetract
  \/ StopRetract
  \/ \E dt \in PlayDTs : PlayTick(dt)

SpecPlay == Init /\ [][NextPlay]_vars

----------------------------------------------------------------------------
(* Claims *)

PelletCells(lvl) ==
  {rc \in (1..Height) \X (1..Width) : lvl.tiles[rc[1]][rc[2]] = "O"}

\* The drill waits at a tile: not retracting, no destination tile.
Idle(d) == ~d.isRetracting /\ d.destinationTile = NoTile

\* The direction the next tick tries: the pending one, else the held one.
Requested(d) ==
  IF d.pendingDirX # 0 \/ d.pendingDirY # 0
    THEN Pt(d.pendingDirX, d.pendingDirY)
    ELSE Pt(d.intentDirX, d.intentDirY)

TargetOf(d, dir) == Pt(d.currentTileX + dir.x, d.currentTileY + dir.y)

InTrail(d, tile) == \E i \in 1..Len(d.tileTrail) : d.tileTrail[i] = tile

Passable(lvl, tile) == getTile(lvl, tile.x, tile.y) \in {".", "O"}

\* The centre of the tile lies on an axis-aligned segment of the pipe.
OnSegment(p, a, b) ==
  \/ a.x = b.x /\ p.x = a.x /\ Min(a.y, b.y) <= p.y /\ p.y <= Max(a.y, b.y)
  \/ a.y = b.y /\ p.y = a.y /\ Min(a.x, b.x) <= p.x /\ p.x <= Max(a.x, b.x)

PipePassesThrough(pipe, tile) ==
  \E i \in 1..(Len(pipe) - 1) :
    OnSegment(tileToPixelCenter(tile.x, tile.y), pipe[i], pipe[i + 1])

\* A step commits a move into a tile other than the one the head is in.
CommitsMove(d, e) ==
  /\ e.destinationTile # NoTile
  /\ e.destinationTile # d.destinationTile
  /\ e.destinationTile # Pt(d.currentTileX, d.currentTileY)

AtWell(d) ==
  /\ d.x = wellPosition.x /\ d.y = wellPosition.y
  /\ d.pipePoints = <<wellPosition>>

\* C1: every pair of consecutive pipe points differs in at most one
\* coordinate: each pipe segment is horizontal or vertical.
C1_PipeAxisAligned ==
  \A i \in 1..(Len(drill.pipePoints) - 1) :
    \/ drill.pipePoints[i].x = drill.pipePoints[i + 1].x
    \/ drill.pipePoints[i].y = drill.pipePoints[i + 1].y

C3_DockedLeavesOnlyByDrop ==
  [][(/\ AtWell(drill)
      /\ drill.pendingDirY # 1
      /\ drill.intentDirY # 1)
       => /\ drill'.destinationTile = NoTile
          /\ drill'.x = drill.x
          /\ drill'.y = drill.y]_vars


\* C4: while the drill waits at a tile, a requested direction whose target
\* tile is passable and present in tileTrail sets no destination tile.
C4_RevisitRejected ==
  [][(/\ Idle(drill)
      /\ Requested(drill) # Zero
      /\ Passable(level, TargetOf(drill, Requested(drill)))
      /\ InTrail(drill, TargetOf(drill, Requested(drill))))
       => drill'.destinationTile = NoTile]_vars

\* C4 witness: a tick has just left the drill waiting with a request that
\* only the trail rule stands against (passable target, no reversal).
C4_Witness ==
  /\ lastOp = "update"
  /\ Idle(drill)
  /\ Requested(drill) # Zero
  /\ Passable(level, TargetOf(drill, Requested(drill)))
  /\ InTrail(drill, TargetOf(drill, Requested(drill)))
  /\ ~(drill.lastForwardX = -Requested(drill).x
       /\ drill.lastForwardY = -Requested(drill).y)

\* C5: while the drill waits at a tile with lastForward non-zero, a request
\* for the exact reverse direction sets no destination tile.
C5_ReversalRejected ==
  [][(/\ Idle(drill)
      /\ (drill.lastForwardX # 0 \/ drill.lastForwardY # 0)
      /\ Requested(drill) = Pt(-drill.lastForwardX, -drill.lastForwardY))
       => drill'.destinationTile = NoTile]_vars

\* C5 witness: a tick has just rejected a reversal whose target tile is
\* passable and not in the trail, so only the reversal rule stands against it.
C5_Witness ==
  /\ lastOp = "update"
  /\ Idle(drill)
  /\ (drill.lastForwardX # 0 \/ drill.lastForwardY # 0)
  /\ Requested(drill) = Pt(-drill.lastForwardX, -drill.lastForwardY)
  /\ Passable(level, TargetOf(drill, Requested(drill)))
  /\ ~InTrail(drill, TargetOf(drill, Requested(drill)))

\* C6: in every reachable state and for every direction a caller passes
\* (the four arrows and the zero vector), trySetDirection accepts only a
\* non-zero direction that is not the reverse of a non-zero lastForward and
\* whose target tile is in bounds, Open or Pellet, and not in tileTrail; on
\* acceptance destinationTile is the target tile and lastForward the direction.
C6_AcceptanceConditions ==
  \A dir \in Dirs \cup {Zero} :
    LET target == TargetOf(drill, dir)
        after == trySetDirection(level, drill, dir.x, dir.y)
    IN trySetDirectionAccepts(level, drill, dir.x, dir.y)
         => /\ dir # Zero
            /\ ~(/\ Pt(drill.lastForwardX, drill.lastForwardY) # Zero
                 /\ dir = Pt(-drill.lastForwardX, -drill.lastForwardY))
            /\ target.x \in 0..(Width - 1) /\ target.y \in 0..(Height - 1)
            /\ level.tiles[target.y + 1][target.x + 1] \in {".", "O"}
            /\ \A i \in 1..Len(drill.tileTrail) : drill.tileTrail[i] # target
            /\ after.destinationTile = target
            /\ Abs(target.x - drill.currentTileX)
                 + Abs(target.y - drill.currentTileY) = 1
            /\ Pt(after.lastForwardX, after.lastForwardY) = dir

\* C6 witness: a tick has just accepted a direction: the drill is heading
\* for the tile next to its current tile in the direction of lastForward.
C6_Witness ==
  /\ lastOp = "update"
  /\ drill.destinationTile # NoTile
  /\ drill.destinationTile
       = TargetOf(drill, Pt(drill.lastForwardX, drill.lastForwardY))
  /\ drill.lastForwardX # 0
  /\ Len(drill.tileTrail) >= 2

\* C7: pelletCount is never negative and equals the number of grid cells
\* that hold a pellet.
C7_PelletCountMatchesGrid ==
  /\ level.pelletCount >= 0
  /\ level.pelletCount = Cardinality(PelletCells(level))

\* C7 witness: the drill has collected a pellet.
C7_Witness ==
  /\ lastOp = "update"
  /\ callbacks # <<>>
  /\ level.pelletCount = InitialPelletCount - 1

\* C8: a direct removePelletAtTile call returns true exactly when the cell
\* held a pellet, then turns the cell Open and lowers pelletCount by one;
\* otherwise (no pellet, wall, out of bounds) it returns false and leaves
\* grid and count unchanged; a second call in a row on the same tile
\* returns false, so the two calls lower pelletCount by exactly one.
C8_RemovePelletTwice ==
  [][(\E t \in ProbeTiles : RemovePellet(t))
       => /\ probe'.result = (probe'.before = "O")
          /\ probe'.result
               => /\ level'.pelletCount = level.pelletCount - 1
                  /\ level'.tiles =
                       [level.tiles EXCEPT ![probe'.ty + 1][probe'.tx + 1] = "."]
          /\ ~probe'.result => level' = level
          /\ (/\ probe.result
              /\ probe'.tx = probe.tx /\ probe'.ty = probe.ty)
               => /\ ~probe'.result
                  /\ level'.pelletCount = probe.count - 1]_vars

\* C8 witness: the second call in a row on a tile that held a pellet has
\* returned false (the cell is Open, the count one below the initial one).
C8_Witness ==
  /\ lastOp = "removePelletAtTile"
  /\ probe.tx \in 0..(Width - 1) /\ probe.ty \in 0..(Height - 1)
  /\ RawMap[probe.ty + 1][probe.tx + 1] = "O"
  /\ probe.before = "."
  /\ ~probe.result
  /\ level.pelletCount = InitialPelletCount - 1

DockedAtWell(d) ==
  /\ ~d.isRetracting
  /\ d.pipePoints = <<wellPosition>>
  /\ d.x = wellPosition.x /\ d.y = wellPosition.y
  /\ d.currentTileX = entryTile.x /\ d.currentTileY = entryTile.y
  /\ d.tileTrail = <<>>
  /\ d.lastForwardX = 0 /\ d.lastForwardY = 0

\* C10: a retracting tick clears isRetracting exactly when it leaves one
\* pipe point, and then that point and the drill position are the well
\* anchor, the current tile is the entry tile, tileTrail is empty and
\* lastForward is zero.
C10_RetractionEndsAtAnchor ==
  [][((\E dt \in DTs : Tick(dt)) /\ drill.isRetracting)
       => /\ (~drill'.isRetracting) <=> (Len(drill'.pipePoints) = 1)
          /\ Len(drill'.pipePoints) = 1 => DockedAtWell(drill')]_vars

\* C10 witness: a retracting tick has just docked a drill that had turned
\* sideways (facing is not reset by the retraction).
C10_Witness ==
  /\ lastOp = "update"
  /\ DockedAtWell(drill)
  /\ drill.facing # Pt(0, 1)
  /\ drill.retractHoldTime = 0
  /\ drill.intentDirX = 0 /\ drill.intentDirY = 0


\* The tiles whose cell is Pellet in lvl1 and Open in lvl2.
PelletToOpen(lvl1, lvl2) ==
  IF lvl1 = lvl2 THEN {}
  ELSE {t \in {Pt(tx, ty) : tx \in 0..(Width - 1), ty \in 0..(Height - 1)} :
          getTile(lvl1, t.x, t.y) = "O" /\ getTile(lvl2, t.x, t.y) = "."}

\* C9: over a whole game, drill replacement after a lost life included, every
\* step that turns a cell from Pellet to Open invokes the pellet-collected
\* callback exactly once with that cell's tile, and every invocation is for a
\* tile that held a pellet and was turned to Open by that step.
C9_OneCallbackPerPellet ==
  [][ /\ \A t \in PelletToOpen(level, level') :
           Cardinality({i \in DOMAIN callbacks' : callbacks'[i] = t}) = 1
      /\ \A i \in DOMAIN callbacks' :
           callbacks'[i] \in PelletToOpen(level, level') ]_vars

\* A replacement drill, built after a lost life, has just collected a pellet.
C9_Witness ==
  /\ lives < InitialLives
  /\ lastOp = "PlayState.update"
  /\ callbacks # <<>>
  /\ level.pelletCount < InitialPelletCount

----------------------------------------------------------------------------
(* Retraction held to the end: the Space key stays down *)

\* Key events and frames with no Space release: once the drill retracts,
\* nothing cancels the retraction (arrow keys and the key repeat of Space
\* still arrive).
NextHeld ==
  \/ \E dir \in Dirs : SetDirection(dir)
  \/ StartRetract
  \/ \E dt \in DTs : Tick(dt)

\* The game loop keeps calling update: every frame is followed by another.
SpecHeld == Init /\ [][NextHeld]_vars /\ WF_vars(\E dt \in DTs : Tick(dt))

\* C11: with the frames continuing at a fixed dt and the retraction never
\* cancelled, a retracting drill eventually is docked: not retracting, the
\* pipe holding exactly the anchor point, the drill at the well.
C11_RetractionTerminates == drill.isRetracting ~> DockedAtWell(drill)

\* C11 witness: a drill that went far enough to collect a pellet has been
\* pulled all the way back and docked by a retracting frame.
C11_Witness ==
  /\ lastOp = "update"
  /\ DockedAtWell(drill)
  /\ drill.isDocked
  /\ level.pelletCount < InitialPelletCount

\* C12: a startRetract call made while the pipe holds one point leaves the
\* drill as it was (intents, position, pipe and trail included), with
\* isRetracting false before and after.
C12_StartRetractNothingToRetract ==
  [][(lastOp' = "startRetract" /\ Len(drill.pipePoints) <= 1)
       => /\ ~drill.isRetracting
          /\ ~drill'.isRetracting
          /\ drill' = drill]_vars

\* C12 witness: Space has just been pressed on a drill at the well whose
\* arrow key is already down; the request is still pending afterwards.
C12_Witness ==
  /\ lastOp = "startRetract"
  /\ AtWell(drill)
  /\ ~drill.isRetracting
  /\ drill.pendingDirY = 1 /\ drill.intentDirY = 1

\* The head has moved from d to e along the straight line toward the
\* waypoint before the head (on the same row or column if the segment is
\* axis-aligned, and never past the waypoint).
Between(v, a, b) == Min(a, b) <= v /\ v <= Max(a, b)

MovesTowardPrevious(d, e) ==
  LET target == d.pipePoints[Len(d.pipePoints) - 1]
  IN /\ Between(e.x, d.x, target.x)
     /\ Between(e.y, d.y, target.y)
     /\ Pt(e.x, e.y) # Pt(d.x, d.y) \/ Pt(d.x, d.y) = target
     /\ Last(e.pipePoints) = Pt(e.x, e.y)
     /\ Len(e.pipePoints) <= Len(d.pipePoints)
     /\ Front(e.pipePoints) = SubSeq(d.pipePoints, 1, Len(e.pipePoints) - 1)
     /\ e.destinationTile = NoTile

\* C13: whenever the drill is retracting its pending and intent directions
\* are zero (startRetract clears them); an arrow key during a retraction
\* leaves the drill unchanged; and a retracting tick moves the head only
\* along the pipe toward the waypoint before it, setting no destination.
C13_RetractIgnoresDirections ==
  [][/\ drill'.isRetracting
          => /\ drill'.pendingDirX = 0 /\ drill'.pendingDirY = 0
             /\ drill'.intentDirX = 0 /\ drill'.intentDirY = 0
     /\ (lastOp' = "setDirection" /\ drill.isRetracting) => drill' = drill
     /\ (lastOp' = "update" /\ drill.isRetracting)
          => MovesTowardPrevious(drill, drill')]_vars

\* C13 witness: an arrow key has just been pressed during a retraction that
\* has run for at least one tick and is not finished.
C13_Witness ==
  /\ lastOp = "setDirection"
  /\ drill.isRetracting
  /\ drill.retractHoldTime > 0
  /\ Len(drill.pipePoints) >= 3
  /\ drill.intentDirX = 0 /\ drill.intentDirY = 0

\* The tile a direction given after the step is tried from.
HeadTile(d) == pixelToTile(d.x, d.y)

\* C14: a stopRetract call made during a retraction clears isRetracting at
\* once and leaves position, pipe and tileTrail as they were; the current
\* tile afterwards is the tile of the head, so that the next update, for any
\* arrow key pressed after the release, heads for nothing, for the centre of
\* the head's tile (the drop) or for the tile next to it in that direction.
C14_StopRetractFreezes ==
  [][(lastOp' = "stopRetract" /\ drill.isRetracting)
       => /\ ~drill'.isRetracting
          /\ drill'.x = drill.x /\ drill'.y = drill.y
          /\ drill'.pipePoints = drill.pipePoints
          /\ drill'.tileTrail = drill.tileTrail
          /\ Pt(drill'.currentTileX, drill'.currentTileY) = HeadTile(drill)
          /\ \A dir \in Dirs, dt \in DTs :
               updateBeforeAdvance(level',
                 setDirection(drill', dir.x, dir.y), dt).destinationTile
                 \in {NoTile, HeadTile(drill),
                      Pt(HeadTile(drill).x + dir.x, HeadTile(drill).y + dir.y)}]_vars

\* C14 witness: Space has just been released in the middle of a retraction
\* (ticks have run, more than the anchor is left), with the head away from
\* the centre of its tile.
C14_Witness ==
  /\ lastOp = "stopRetract"
  /\ ~drill.isRetracting
  /\ drill.retractHoldTime > 0
  /\ Len(drill.pipePoints) >= 2
  /\ Pt(drill.x, drill.y) # getCurrentTileCenter(drill)

----------------------------------------------------------------------------
(* Retract step: the step distance of retractAlongPipe on chosen inputs *)

\* Held times run over 0 .. MaxHold tenths of a second and frame times over
\* 1 .. MaxStepDt tenths of a second.
MaxHold == 15
MaxStepDt == 4

HoldTimes == {100 * h : h \in 0..MaxHold}
StepDTs == {100 * t : t \in 1..MaxStepDt}

\* The step distance computed for two held times and one frame time.
RetractStep(h1, h2, dt) ==
  /\ probe' = [hold1 |-> h1, hold2 |-> h2, dt |-> dt,
               step1 |-> retractMaxStep(h1, dt),
               step2 |-> retractMaxStep(h2, dt)]
  /\ lastOp' = "retractMaxStep"
  /\ UNCHANGED <<level, drill, score, levelComplete, callbacks, playVars>>

NextStep == \E h1 \in HoldTimes, h2 \in HoldTimes, dt \in StepDTs : RetractStep(h1, h2, dt)

SpecStep == Init /\ [][NextStep]_vars

\* C15: for one frame time, the retract step of the longer held time is at
\* least the step of the shorter one, and each step is between 1 and 16
\* times retractSpeed * dt (1 at held time zero, 16 from one second on).
C15_RetractStepMonotone ==
  lastOp = "retractMaxStep"
    => LET unit == (retractSpeed * probe.dt) \div MsPerSecond
       IN /\ probe.hold1 <= probe.hold2 => probe.step1 <= probe.step2
          /\ unit <= probe.step1 /\ probe.step1 <= 16 * unit
          /\ probe.hold1 = 0 => probe.step1 = unit
          /\ probe.hold1 >= MsPerSecond => probe.step1 = 16 * unit

\* C15 witness: two held times below one second give strictly growing
\* steps, and a held time above one second gives the 16-fold step.
C15_Witness ==
  /\ lastOp = "retractMaxStep"
  /\ 0 < probe.hold1 /\ probe.hold1 < MsPerSecond
  /\ probe.hold2 > MsPerSecond
  /\ probe.step1 > (retractSpeed * probe.dt) \div MsPerSecond
  /\ probe.step1 < probe.step2
  /\ probe.step2 = 16 * ((retractSpeed * probe.dt) \div MsPerSecond)

\* C16: within one retraction episode the held time is not reset by
\* releasing and pressing Space again: a step that brings a positive
\* retractHoldTime back to zero leaves the drill docked at the well.
C16_HoldTimeKeptUntilDocked ==
  [][(drill.retractHoldTime > 0 /\ drill'.retractHoldTime = 0)
       => DockedAtWell(drill')]_vars

----------------------------------------------------------------------------
(* Enemy encounters: play resumed from states a scripted player reaches *)

\* The frame time of the encounters, in milliseconds (10 frames a second).
EnemyDTs == {100}

\* After a scripted opening, EnemyFrames frames are explored under every
\* key sequence.
EnemyFrames == 6

ArrowDown == Pt(0, 1)
ArrowLeft == Pt(-1, 0)
ArrowRight == Pt(1, 0)

\* The arrow key that leads from the entry tile along row 1 to the right,
\* then down the vertical tunnels to row 13 (a lane of type "02" enemies).
RouteDir(t) ==
  IF t.y \in {0, 2, 4, 6, 8, 10, 12} THEN ArrowDown
  ELSE IF t.y = 1 THEN (IF t.x < 21 THEN ArrowRight ELSE ArrowDown)
  ELSE IF t.y = 3 THEN (IF t.x < 24 THEN ArrowRight ELSE ArrowDown)
  ELSE IF t.y = 5 THEN (IF t.x > 22 THEN ArrowLeft ELSE ArrowDown)
  ELSE IF t.y = 7 THEN (IF t.x > 18 THEN ArrowLeft ELSE ArrowDown)
  ELSE IF t.y = 9 THEN (IF t.x < 19 THEN ArrowRight ELSE ArrowDown)
  ELSE IF t.y = 11 THEN (IF t.x < 23 THEN ArrowRight ELSE ArrowDown)
  ELSE Zero

\* The keys a scripted player presses before a frame, as the drill they
\* leave.  "idle" presses nothing.  "route" follows RouteDir from the well
\* to row 13.  "park" follows it into the first vertical tunnel and taps
\* Space (down and up) as soon as the head is in row 2, which leaves the
\* drill standing there, and presses nothing afterwards.
pressKeys(script, d) ==
  IF script = "idle" THEN d
  ELSE IF script = "park" /\ d.currentTileY >= 2
    THEN IF d.destinationTile # NoTile THEN stopRetract(startRetract(d)) ELSE d
  ELSE The({setDirection(d, key.x, key.y) :
              key \in {IF d.y < tileToPixelCenter(entryTile.x, entryTile.y).y
                         THEN ArrowDown
                         ELSE RouteDir(Pt(d.currentTileX, d.currentTileY))}})

\* Math.random() returning 0 throughout.
NoDraws == [k \in 1..EnemyCount |-> 0]

\* The openings: the script and the number of frames played under it.
Openings ==
  {[script |-> "idle", start |-> 90],
   [script |-> "route", start |-> 67],
   [script |-> "park", start |-> 84]}

\* PlayState.constructor, followed by a scripted opening.
InitEnemy ==
  /\ level = InitLevel
  /\ drill = NewDrill
  /\ score = 0
  /\ levelComplete = FALSE
  /\ callbacks = <<>>
  /\ lastOp = "constructor"
  /\ probe = NoProbe
  /\ lives = InitialLives
  /\ remainingTime = levelTimeLimit * MsPerSecond
  /\ timeExpired = FALSE
  /\ enemies = NewEnemies(NoDraws, NoDraws, NoDraws)
  /\ gameOver = FALSE
  /\ frames = 0
  /\ opening \in Openings

\* The PlayState record of the current state.
PlayStateNow ==
  [level |-> level, drill |-> drill, score |-> score,
   levelComplete |-> levelComplete, callbacks |-> callbacks,
   lives |-> lives, remainingTime |-> remainingTime,
   timeExpired |-> timeExpired, enemies |-> enemies, gameOver |-> gameOver]

\* The frame ps.drill's keys and PlayState.update(dt) make of the current
\* state.
Frame(ps) ==
  /\ level' = ps.level
  /\ drill' = ps.drill
  /\ score' = ps.score
  /\ levelComplete' = ps.levelComplete
  /\ callbacks' = ps.callbacks
  /\ lives' = ps.lives
  /\ remainingTime' = ps.remainingTime
  /\ timeExpired' = ps.timeExpired
  /\ enemies' = ps.enemies
  /\ gameOver' = ps.gameOver
  /\ frames' = frames + 1
  /\ lastOp' = "PlayState.update"
  /\ UNCHANGED <<probe, opening>>

\* A frame of the opening: the script's keys, then PlayState.update.
ScriptedFrame(dt) ==
  /\ ~gameOver
  /\ frames < opening.start
  /\ \E ps \in {playUpdate(
                   [PlayStateNow EXCEPT !.drill = pressKeys(opening.script, @)],
                   dt, [update |-> NoDraws, destroyed |-> NoDraws,
                        reset |-> NoDraws])} : Frame(ps)

\* The opening is over: the keys are free.
OpeningDone == frames >= opening.start

\* One frame of PlayState.update within EnemyFrames frames of the opening.
EnemyTick(dt) ==
  /\ ~gameOver
  /\ OpeningDone
  /\ frames < opening.start + EnemyFrames
  /\ \E ru \in Draws, rd \in Draws, rr \in Draws :
       \E ps \in {playUpdate(PlayStateNow, dt,
                             [update |-> ru, destroyed |-> rd, reset |-> rr])} :
          Frame(ps)

NextEnemy ==
  \/ \E dt \in EnemyDTs : ScriptedFrame(dt)
  \/ OpeningDone /\ \E dir \in Dirs : SetDirection(dir)
  \/ OpeningDone /\ StartRetract
  \/ OpeningDone /\ StopRetract
  \/ \E dt \in EnemyDTs : EnemyTick(dt)

SpecEnemy == InitEnemy /\ [][NextEnemy]_vars

----------------------------------------------------------------------------
(* Claims on the enemy interactions *)

\* PlayState.update up to the call of handleEnemyInteractions: the timer,
\* Drill.update and every Enemy.update have run.
beforeInteractions(ps, dt, rs) ==
  The({[p2 EXCEPT !.enemies =
          [k \in DOMAIN @ |-> enemyUpdate(@[k], dt, rs.update[k])]] :
         p2 \in {drillUpdate(
                   [ps EXCEPT !.remainingTime =
                      IF ps.levelComplete THEN @ ELSE Max(0, @ - dt),
                              !.callbacks = <<>>], dt)}})

\* The state handleEnemyInteractions starts from in a frame of dt
\* milliseconds taken in the current state (the script's keys pressed first
\* while the opening lasts).
MidFrame(dt) ==
  beforeInteractions(
    IF OpeningDone THEN PlayStateNow
    ELSE [PlayStateNow EXCEPT !.drill = pressKeys(opening.script, @)],
    dt, [update |-> NoDraws, destroyed |-> NoDraws, reset |-> NoDraws])

\* The step is a frame whose timer has not just run out, so that
\* handleEnemyInteractions runs in it.
InteractionFrame(dt) ==
  /\ frames' = frames + 1
  /\ dt \in EnemyDTs
  /\ ~(~levelComplete /\ remainingTime - dt <= 0 /\ ~timeExpired)

\* What the loop of handleEnemyInteractions does with each enemy when it
\* gets to it.
Outcomes(mid) ==
  The({[k \in DOMAIN mid.enemies |->
          IF mid.enemies[k].active THEN enemyOutcome(d, mid.enemies[k])
          ELSE "none"] : d \in {refreshDockedState(mid.drill)}})

\* The place in the list of the first enemy that costs a life (one past the
\* end if there is none): the loop stops there.
FirstLoss(oc) ==
  IF \E k \in DOMAIN oc : oc[k] = "lifeLost"
    THEN MinOf({k \in DOMAIN oc : oc[k] = "lifeLost"})
    ELSE Len(oc) + 1

\* The drill is at the well, not retracting, with only the anchor in its pipe.
DockedDrill(d) == AtWell(d) /\ ~d.isRetracting

\* Enemy positions around the head and the tip of a drill at the well.
NearWell ==
  {[x |-> wellPosition.x + 4 * i, y |-> wellPosition.y + 8 * j, type |-> ty] :
     i \in -6..6, j \in 0..8, ty \in {"01", "02"}}

\* C17: in a frame in which the drill is docked when the interactions are
\* resolved, no enemy is destroyed and no life is lost (score, enemies and
\* lives are as the updates left them), and for every enemy position near
\* the well and either type neither the head test nor the pipe test fires.
C17_DockedDrillUntouched ==
  [][\A dt \in EnemyDTs :
       InteractionFrame(dt) =>
         \A mid \in {MidFrame(dt)} :
           DockedDrill(mid.drill) =>
             /\ lives' = lives
             /\ score' = mid.score
             /\ enemies' = mid.enemies
             /\ ~gameOver'
             /\ \A e \in NearWell :
                  /\ ~collidesWithHead(refreshDockedState(mid.drill),
                                       e.x, e.y, enemyRadius)
                  /\ ~enemyHitsPipe(mid.drill, e)]_vars

\* C17 witness: a frame has just ended with the drill docked and an active
\* enemy of lane 1 right below the well, within the reach of the drill tip;
\* nothing was scored and no life lost.
C17_Witness ==
  /\ lastOp = "PlayState.update"
  /\ DockedDrill(drill)
  /\ \E k \in DOMAIN enemies :
       /\ enemies[k].active
       /\ touchesHead(drill, enemies[k].x, enemies[k].y, enemyRadius)
  /\ lives = InitialLives
  /\ score = 0


\* The active type "02" enemies the head test fires for.
HazardContacts(mid) ==
  The({{k \in DOMAIN mid.enemies :
          /\ mid.enemies[k].active
          /\ mid.enemies[k].type = "02"
          /\ collidesWithHead(d, mid.enemies[k].x, mid.enemies[k].y, enemyRadius)} :
         d \in {refreshDockedState(mid.drill)}})

\* The enemies before place f that the head destroys.
DestroyedBefore(oc, f) == {j \in DOMAIN oc : j < f /\ oc[j] = "destroyed"}

\* C18: in a frame in which the head test fires for an active type "02"
\* enemy, exactly one life is lost; the score grows only by the enemies the
\* head destroyed earlier in the list; the type "02" enemy is not scheduled
\* for respawn by handleDestroyed (it stays active, or is reset with the
\* others); and the enemies after the first one that cost the life are as
\* Enemy.update left them, or reset with the others.
C18_HazardHeadContact ==
  [][\A dt \in EnemyDTs :
       InteractionFrame(dt) =>
         \A mid \in {MidFrame(dt)} :
           HazardContacts(mid) # {} =>
             \A oc \in {Outcomes(mid)} :
               /\ lives' = lives - 1
               /\ score' = mid.score
                    + ENEMY_SCORE * Cardinality(DestroyedBefore(oc, FirstLoss(oc)))
               /\ \A k \in HazardContacts(mid) :
                    /\ FirstLoss(oc) <= k
                    /\ enemies'[k].active
                    /\ enemies'[k].respawnTimer = 0
               /\ \A j \in DOMAIN enemies' :
                    j > FirstLoss(oc) =>
                      enemies'[j] = IF gameOver' THEN mid.enemies[j]
                                    ELSE reset(mid.enemies[j], 0)]_vars

\* C18 witness: a frame has just cost the first life of a game in which the
\* drill had gone down to row 13, the lane of type "02" enemies: the drill is
\* back at the well, the pellet collected on the way still scored, and the
\* type "02" enemies are back at their start positions.
C18_Witness ==
  /\ lastOp = "PlayState.update"
  /\ opening.script = "route"
  /\ frames > opening.start
  /\ lives = InitialLives - 1
  /\ DockedDrill(drill)
  /\ score = PELLET_SCORE
  /\ \A k \in DOMAIN enemies :
       enemies[k].type = "02" =>
         enemies[k].active /\ enemies[k].x = startPosition(enemies[k])


\* The active enemies the head test does not fire for and the pipe test
\* does: within enemy radius + pipe radius of a pipe segment.
PipeContacts(mid) ==
  The({{k \in DOMAIN mid.enemies :
          /\ mid.enemies[k].active
          /\ ~collidesWithHead(d, mid.enemies[k].x, mid.enemies[k].y, enemyRadius)
          /\ \E i \in 1..(Len(d.pipePoints) - 1) :
               distancePointToSegment(mid.enemies[k].x, mid.enemies[k].y,
                 d.pipePoints[i].x, d.pipePoints[i].y,
                 d.pipePoints[i + 1].x, d.pipePoints[i + 1].y,
                 enemyRadius + pipeRadius)} :
         d \in {refreshDockedState(mid.drill)}})

\* C20: in a frame in which, when the interactions are resolved, an active
\* enemy not in head contact is within enemy radius + pipe radius of a
\* segment between consecutive pipe waypoints, one life is lost (the drill
\* is replaced, or the game is over), and no enemy after the first one that
\* cost the life is processed: each is as Enemy.update left it, or reset
\* with the others, and the score grows only by the enemies destroyed before.
C20_PipeContactCostsLife ==
  [][\A dt \in EnemyDTs :
       InteractionFrame(dt) =>
         \A mid \in {MidFrame(dt)} :
           PipeContacts(mid) # {} =>
             \A oc \in {Outcomes(mid)} :
               /\ lives' = lives - 1
               /\ gameOver' \/ drill' = NewDrill
               /\ FirstLoss(oc) <= MinOf(PipeContacts(mid))
               /\ score' = mid.score
                    + ENEMY_SCORE * Cardinality(DestroyedBefore(oc, FirstLoss(oc)))
               /\ \A j \in DOMAIN enemies' :
                    j > FirstLoss(oc) =>
                      enemies'[j] = IF gameOver' THEN mid.enemies[j]
                                    ELSE reset(mid.enemies[j], 0)]_vars

\* C20 witness: in the game that began with 90 idle frames a frame has just
\* cost a life although nothing was ever scored: the enemy of lane 1 ran
\* into the pipe, away from the head.
C20_Witness ==
  /\ lastOp = "PlayState.update"
  /\ opening.script = "idle"
  /\ frames > opening.start
  /\ lives = InitialLives - 1
  /\ score = 0
  /\ DockedDrill(drill)
  /\ enemies[1].active /\ enemies[1].x = startPosition(enemies[1])


\* The active type "01" enemies within the head's collision distance of a
\* drill that is not docked: overlapping the head circle, or within the
\* combined radius of the body/tip segment.
DestructibleTouching(mid) ==
  {k \in DOMAIN mid.enemies :
     /\ mid.enemies[k].active
     /\ mid.enemies[k].type = "01"
     /\ ~DockedDrill(mid.drill)
     /\ touchesHead(mid.drill, mid.enemies[k].x, mid.enemies[k].y, enemyRadius)}

\* C19: in a frame in which an active type "01" enemy is within the head's
\* collision distance of a drill that has left the well, and no other enemy
\* costs a life, the enemy is deactivated with a positive respawn timer and
\* no life is lost, whether or not the enemy also touches the pipe.
C19_DestructibleHeadContact ==
  [][\A dt \in EnemyDTs :
       InteractionFrame(dt) =>
         \A mid \in {MidFrame(dt)} :
           \A k \in DestructibleTouching(mid) :
             (\A j \in DOMAIN mid.enemies :
                j # k => Outcomes(mid)[j] # "lifeLost")
               => /\ ~enemies'[k].active
                  /\ enemies'[k].respawnTimer > 0
                  /\ lives' = lives]_vars

\* The enemy is active at the start of its lane, with no respawn pending.
AtLaneStart(e) ==
  /\ e.active
  /\ e.respawnTimer = 0
  /\ e.direction = e.initialDirection
  /\ e.x = startPosition(e)
  /\ e.y = e.spawnY

\* C21: a frame that costs a life and leaves lives > 0 ends with a fresh
\* docked drill (at the well, the pipe holding the anchor only, tileTrail
\* empty, no intent, not retracting) and with every enemy active at the start
\* of its lane with respawnTimer 0, while the grid, pelletCount and the
\* remaining time are as the frame's updates left them and the score is as
\* the enemies destroyed before the loss left it.
C21_LifeLossResets ==
  [][\A dt \in EnemyDTs :
       (InteractionFrame(dt) /\ lives' < lives /\ lives' > 0) =>
         \A mid \in {MidFrame(dt)} :
           \A oc \in {Outcomes(mid)} :
             /\ drill' = NewDrill
             /\ DockedAtWell(drill') /\ drill'.isDocked
             /\ drill'.intentDirX = 0 /\ drill'.intentDirY = 0
             /\ drill'.pendingDirX = 0 /\ drill'.pendingDirY = 0
             /\ \A k \in DOMAIN enemies' : AtLaneStart(enemies'[k])
             /\ Len(enemies') = Len(enemies)
             /\ level' = mid.level
             /\ score' = mid.score
                  + ENEMY_SCORE * Cardinality(DestroyedBefore(oc, FirstLoss(oc)))
             /\ remainingTime' = remainingTime - dt]_vars

\* C21 witness: a life has just been lost by a drill that was moving with a
\* long pipe and a collected pellet: the drill is fresh, the pellet is still
\* gone from the grid and still scored, every enemy is at its lane start.
C21_Witness ==
  /\ lastOp = "PlayState.update"
  /\ lives = InitialLives - 1
  /\ drill = NewDrill
  /\ level.pelletCount = InitialPelletCount - 1
  /\ score >= PELLET_SCORE
  /\ remainingTime < levelTimeLimit * MsPerSecond
  /\ \A k \in DOMAIN enemies : AtLaneStart(enemies[k])

----------------------------------------------------------------------------
(* Claims on the level timer *)

\* An enemy costs a life in a frame of dt milliseconds taken in the current
\* state.
EnemyCostsLife(dt) ==
  \E oc \in {Outcomes(beforeInteractions(PlayStateNow, dt,
                [update |-> NoDraws, destroyed |-> NoDraws, reset |-> NoDraws]))} :
    \E k \in DOMAIN oc : oc[k] = "lifeLost"

\* C22: the remaining time never grows and is never negative, a lost life
\* included; the frame in which it reaches 0 takes exactly one life and sets
\* timeExpired, by handleLifeLost (a fresh drill and the enemies at their
\* lane starts, or the game over) with grid and score untouched; and once
\* timeExpired is set a frame takes a life only when an enemy costs one.
C22_TimerExpiresOnce ==
  [][/\ remainingTime' <= remainingTime
     /\ remainingTime' >= 0
     /\ (remainingTime > 0 /\ remainingTime' = 0)
          => /\ lives' = lives - 1
             /\ timeExpired'
             /\ gameOver' \/ (/\ drill' = NewDrill
                              /\ \A k \in DOMAIN enemies' : AtLaneStart(enemies'[k]))
             /\ level' = level /\ score' = score
     /\ timeExpired
          => /\ timeExpired'
             /\ lives' >= lives - 1
             /\ lives' < lives => \E dt \in PlayDTs : EnemyCostsLife(dt)]_vars

\* C22 witness: the timer ran out in an earlier frame and took one life; the
\* player went on, and frames since then have moved the new drill off the
\* well with the timer at 0 and no further life taken.
C22_Witness ==
  /\ lastOp = "PlayState.update"
  /\ timeExpired
  /\ remainingTime = 0
  /\ lives = InitialLives - 1
  /\ frames >= 3
  /\ Len(drill.pipePoints) >= 2

----------------------------------------------------------------------------
(* Enemy lanes: the game left running with the drill at the well *)

\* The frame time of the running game, in milliseconds.
LaneDTs == {1000}

\* One frame of PlayState.update with no key pressed.  The frames are not
\* counted: the game runs on without a bound.
IdleFrame(dt) ==
  /\ ~gameOver
  /\ \E ru \in Draws, rd \in Draws, rr \in Draws :
       \E ps \in {playUpdate(PlayStateNow, dt,
                             [update |-> ru, destroyed |-> rd, reset |-> rr])} :
          /\ level' = ps.level
          /\ drill' = ps.drill
          /\ score' = ps.score
          /\ levelComplete' = ps.levelComplete
          /\ callbacks' = ps.callbacks
          /\ lives' = ps.lives
          /\ remainingTime' = ps.remainingTime
          /\ timeExpired' = ps.timeExpired
          /\ enemies' = ps.enemies
          /\ gameOver' = ps.gameOver
  /\ lastOp' = "PlayState.update"
  /\ UNCHANGED <<probe, opening, frames>>

NextLanes == \E dt \in LaneDTs : IdleFrame(dt)

\* requestAnimationFrame keeps calling gameLoop: every frame is followed by
\* another.
SpecLanes == Init /\ [][NextLanes]_vars /\ WF_vars(NextLanes)

\* The enemy has left the canvas by more than the spawn margin on the side
\* it travels to.
PastLaneEnd(e) ==
  \/ e.direction > 0 /\ e.x > canvasWidth + spawnMargin
  \/ e.direction < 0 /\ e.x < -spawnMargin

\* C23: with the frames continuing at dt > 0, every inactive enemy
\* eventually is active, and every active enemy eventually is inactive with
\* a positive respawn timer, past the end of its lane; no step changes the
\* length of the enemy list, an enemy's lane (spawn point, row of an active
\* enemy) or its travel direction.
C23_EnemiesCycle ==
  /\ [][/\ Len(enemies') = Len(enemies)
        /\ \A k \in DOMAIN enemies :
             /\ enemies'[k].spawnX = enemies[k].spawnX
             /\ enemies'[k].spawnY = enemies[k].spawnY
             /\ enemies'[k].initialDirection = enemies[k].initialDirection
             /\ enemies'[k].direction = enemies[k].direction
             /\ enemies'[k].type = enemies[k].type
             /\ enemies'[k].placed => enemies'[k].y = enemies[k].spawnY]_vars
  /\ \A k \in 1..EnemyCount :
       /\ (~enemies[k].active) ~> enemies[k].active
       /\ enemies[k].active
            ~> (/\ ~enemies[k].active
                /\ enemies[k].respawnTimer > 0
                /\ PastLaneEnd(enemies[k]))

\* C23 witness: an enemy has crossed its lane and waits past its end with a
\* positive respawn timer, while an enemy that started with a delay is
\* active and on its way.
C23_Witness ==
  /\ lastOp = "PlayState.update"
  /\ \E k \in DOMAIN enemies :
       /\ ~enemies[k].active
       /\ enemies[k].respawnTimer > 0
       /\ PastLaneEnd(enemies[k])
  /\ \E j \in DOMAIN enemies :
       /\ enemies[j].active
       /\ enemies[j].x # startPosition(enemies[j])
       /\ enemyConfig(j).delay > 0

----------------------------------------------------------------------------
(* Claims on the drill's movement and its pipe *)

\* C24: a tick that ends with a destination tile set has changed exactly one
\* of the drill's coordinates, and the other one is the centre coordinate of
\* the current tile.
C24_MovesAlongOneAxis ==
  [][(lastOp' = "update" /\ drill'.destinationTile # NoTile)
       => /\ (drill'.x # drill.x) # (drill'.y # drill.y)
          /\ drill'.x # drill.x => drill'.y = getCurrentTileCenter(drill').y
          /\ drill'.y # drill.y => drill'.x = getCurrentTileCenter(drill').x]_vars

\* Idle-at-tile: no retraction, no destination tile, the head at the centre
\* of its current tile.
IdleAtTile(d) == Idle(d) /\ Pt(d.x, d.y) = getCurrentTileCenter(d)

\* The direction is none, or its target tile is a wall or outside the grid,
\* or it reverses lastForward, or its target tile is in tileTrail.
Blocked(lvl, d, dir) ==
  \/ dir = Zero
  \/ ~Passable(lvl, TargetOf(d, dir))
  \/ /\ Pt(d.lastForwardX, d.lastForwardY) # Zero
     /\ dir = Pt(-d.lastForwardX, -d.lastForwardY)
  \/ InTrail(d, TargetOf(d, dir))

\* C25: a tick of a drill that is idle at a tile with both its pending and
\* its intent direction blocked leaves destinationTile absent and position,
\* pipe and tileTrail as they were; the two directions are kept, so the next
\* tick finds the drill idle and blocked again.
C25_BlockedDrillStaysIdle ==
  [][(/\ lastOp' = "update"
      /\ IdleAtTile(drill)
      /\ Blocked(level, drill, Pt(drill.pendingDirX, drill.pendingDirY))
      /\ Blocked(level, drill, Pt(drill.intentDirX, drill.intentDirY)))
       => /\ drill'.destinationTile = NoTile
          /\ drill'.x = drill.x /\ drill'.y = drill.y
          /\ drill'.pipePoints = drill.pipePoints
          /\ drill'.tileTrail = drill.tileTrail
          /\ level' = level
          /\ IdleAtTile(drill')
          /\ Blocked(level', drill', Pt(drill'.pendingDirX, drill'.pendingDirY))
          /\ Blocked(level', drill', Pt(drill'.intentDirX, drill'.intentDirY))]_vars

\* C25 witness: a tick has left a drill with its pipe out idle at a tile,
\* the arrow key held pointing at a wall.
C25_Witness ==
  /\ lastOp = "update"
  /\ IdleAtTile(drill)
  /\ Len(drill.pipePoints) >= 2
  /\ Pt(drill.intentDirX, drill.intentDirY) # Zero
  /\ Pt(drill.pendingDirX, drill.pendingDirY) # Zero
  /\ getTile(level, drill.currentTileX + drill.intentDirX,
                    drill.currentTileY + drill.intentDirY) = "#"
  /\ getTile(level, drill.currentTileX + drill.pendingDirX,
                    drill.currentTileY + drill.pendingDirY) = "#"

\* C26: after every update tick the first pipe point is the well anchor and
\* the last pipe point is the drill's position.
C26_PipeEndsAtAnchorAndHead ==
  lastOp = "update"
    => /\ Len(drill.pipePoints) >= 1
       /\ drill.pipePoints[1] = wellPosition
       /\ Last(drill.pipePoints) = Pt(drill.x, drill.y)

\* A trySetDirection call with this direction is to be rejected: the drill
\* is already heading for a tile, or the direction is blocked.
Rejected(lvl, d, dir) == d.destinationTile # NoTile \/ Blocked(lvl, d, dir)

\* C27: in every reachable state, a trySetDirection call with a rejected
\* direction (zero, already moving, reversal, wall or out of bounds,
\* revisit) returns false and leaves the drill as it was, and
\* tryApplyPendingDirection with a rejected pending direction returns false
\* and leaves the drill, the pending direction included, as it was; a tick
\* of a drill that is not retracting clears a pending direction only by
\* taking it (lastForward is then that direction).
C27_RejectedRequestChangesNothing ==
  /\ [](\A dir \in Dirs \cup {Zero} :
          Rejected(level, drill, dir)
            => /\ ~trySetDirectionAccepts(level, drill, dir.x, dir.y)
               /\ trySetDirection(level, drill, dir.x, dir.y) = drill)
  /\ [](Rejected(level, drill, Pt(drill.pendingDirX, drill.pendingDirY))
          => /\ ~tryApplyPendingAccepts(level, drill)
             /\ tryApplyPendingDirection(level, drill) = drill)
  /\ [][(/\ lastOp' = "update"
         /\ ~drill.isRetracting
         /\ Pt(drill.pendingDirX, drill.pendingDirY) # Zero)
          => \/ /\ drill'.pendingDirX = drill.pendingDirX
                /\ drill'.pendingDirY = drill.pendingDirY
             \/ /\ Pt(drill'.pendingDirX, drill'.pendingDirY) = Zero
                /\ Pt(drill'.lastForwardX, drill'.lastForwardY)
                     = Pt(drill.pendingDirX, drill.pendingDirY)]_vars

\* C27 witness: a tick has rejected the pending direction of a drill idle
\* at a tile, for being the reverse of lastForward and for nothing else (the
\* target tile is open and not in the trail); the direction is still pending.
C27_Witness ==
  /\ lastOp = "update"
  /\ IdleAtTile(drill)
  /\ Pt(drill.pendingDirX, drill.pendingDirY) # Zero
  /\ Pt(drill.pendingDirX, drill.pendingDirY)
       = Pt(-drill.lastForwardX, -drill.lastForwardY)
  /\ Passable(level, TargetOf(drill, Pt(drill.pendingDirX, drill.pendingDirY)))
  /\ ~InTrail(drill, TargetOf(drill, Pt(drill.pendingDirX, drill.pendingDirY)))
  /\ Len(drill.pipePoints) >= 3

\* The direction from point a to point b, as a pair of signs.
SegDir(a, b) == Pt(Sign(b.x - a.x), Sign(b.y - a.y))

\* C28: a tick that moves the head of a drill that is not retracting into
\* another tile leaves the number of pipe points as it was when the head
\* moves in the direction of the last committed segment (the one before the
\* head's), and raises it by exactly one when the direction differs.
C28_WaypointOnlyAtTurns ==
  [][(/\ lastOp' = "update"
      /\ ~drill.isRetracting
      /\ Len(drill.pipePoints) >= 3
      /\ HeadTile(drill') # HeadTile(drill))
       => LET n == Len(drill.pipePoints)
              segment == SegDir(drill.pipePoints[n - 2], drill.pipePoints[n - 1])
              move == SegDir(Pt(drill.x, drill.y), Pt(drill'.x, drill'.y))
          IN Len(drill'.pipePoints) = IF move = segment THEN n ELSE n + 1]_vars

\* The point is the centre of a tile of the grid.
IsTileCentre(p) ==
  /\ pixelToTile(p.x, p.y) # NoTile
  /\ tileToPixelCenter(pixelToTile(p.x, p.y).x, pixelToTile(p.x, p.y).y) = p

\* C29: in every reachable state every pipe point other than the first (the
\* anchor) and the last (the head) is the centre of a tile.
C29_InteriorWaypointsAtCentres ==
  \A i \in 2..(Len(drill.pipePoints) - 1) : IsTileCentre(drill.pipePoints[i])

\* C29 witness: Space has just been released with the head between two tile
\* centres, on a pipe that has a corner: the head's point is the only one
\* that is not a tile centre or the anchor.
C29_Witness ==
  /\ lastOp = "stopRetract"
  /\ ~drill.isRetracting
  /\ drill.retractHoldTime > 0
  /\ ~IsTileCentre(Pt(drill.x, drill.y))
  /\ Last(drill.pipePoints) = Pt(drill.x, drill.y)
  /\ \E i \in 2..(Len(drill.pipePoints) - 2) :
       SegDir(drill.pipePoints[i - 1], drill.pipePoints[i])
         # SegDir(drill.pipePoints[i], drill.pipePoints[i + 1])

----------------------------------------------------------------------------
(* Growth and retraction compared: the pipe lengths seen while growing *)

\* The record of a growth: for each head position a growing tick ended at,
\* the number of pipe points then.  A new drill has its one point at the well.
AtWellOnly ==
  [grown |-> {[x |-> wellPosition.x, y |-> wellPosition.y, count |-> 1]}]

\* The record with the drill's head position and pipe length entered.
Recorded(rec, d) ==
  [grown |-> {g \in rec.grown : Pt(g.x, g.y) # Pt(d.x, d.y)}
               \cup {[x |-> d.x, y |-> d.y, count |-> Len(d.pipePoints)]}]

InitMirror ==
  /\ level = InitLevel
  /\ drill = NewDrill
  /\ score = 0
  /\ levelComplete = FALSE
  /\ callbacks = <<>>
  /\ lastOp = "constructor"
  /\ probe = AtWellOnly
  /\ lives = InitialLives
  /\ remainingTime = levelTimeLimit * MsPerSecond
  /\ timeExpired = FALSE
  /\ enemies = NewEnemies(NoDraws, NoDraws, NoDraws)
  /\ gameOver = FALSE
  /\ frames = 0
  /\ opening = NoOpening

\* One frame of Drill.update(dt) of a drill that is not retracting; the
\* head position it ends at is recorded with the pipe length.
GrowTick(dt) ==
  /\ ~drill.isRetracting
  /\ Reach(drill) <= MaxReach
  /\ \E ps \in {drillUpdate(
                   [level |-> level, drill |-> drill, score |-> score,
                    levelComplete |-> levelComplete, callbacks |-> <<>>], dt)} :
        /\ level' = ps.level
        /\ drill' = ps.drill
        /\ score' = ps.score
        /\ levelComplete' = ps.levelComplete
        /\ callbacks' = ps.callbacks
        /\ probe' = Recorded(probe, ps.drill)
  /\ lastOp' = "update"
  /\ UNCHANGED playVars

\* One frame of Drill.update(dt) of a retracting drill; when it docks the
\* drill, the record starts afresh.
RetractTick(dt) ==
  /\ drill.isRetracting
  /\ \E ps \in {drillUpdate(
                   [level |-> level, drill |-> drill, score |-> score,
                    levelComplete |-> levelComplete, callbacks |-> <<>>], dt)} :
        /\ level' = ps.level
        /\ drill' = ps.drill
        /\ score' = ps.score
        /\ levelComplete' = ps.levelComplete
        /\ callbacks' = ps.callbacks
        /\ probe' = IF ps.drill.isRetracting THEN probe ELSE AtWellOnly
  /\ lastOp' = "retract"
  /\ UNCHANGED playVars

\* The pipe is grown with the arrow keys and retracted with Space held down
\* to the end.
NextMirror ==
  \/ \E dir \in Dirs : SetDirection(dir)
  \/ StartRetract
  \/ \E dt \in DTs : GrowTick(dt)
  \/ \E dt \in DTs : RetractTick(dt)

SpecMirror == InitMirror /\ [][NextMirror]_vars

\* C30: whenever a retracting tick ends with the head at a position at
\* which a growing tick of the same pipe ended, the pipe has as many points
\* as it had then.
C30_RetractionMirrorsGrowth ==
  [][lastOp' = "retract"
       => \A g \in probe.grown :
            (g.x = drill'.x /\ g.y = drill'.y)
              => Len(drill'.pipePoints) = g.count]_vars

----------------------------------------------------------------------------
(* Claims on held directions and key presses between ticks *)

\* C31: a tick of a drill that is not retracting and has a direction held
\* (intent set) ends without a destination tile only if the held direction
\* is blocked from the tile the drill then stands in; in particular the tick
\* in which the drill arrives at a tile centre sets the next destination tile
\* whenever the next tile in the held direction is acceptable.
C31_HeldDirectionChains ==
  [][(/\ lastOp' = "update"
      /\ ~drill.isRetracting
      /\ Pt(drill.intentDirX, drill.intentDirY) # Zero
      /\ drill'.destinationTile = NoTile)
       => Blocked(level', drill', Pt(drill.intentDirX, drill.intentDirY))]_vars

\* C31 witness: a tick has brought the drill to the centre of a tile away
\* from the entry tile and has set the next tile in the held direction as
\* the destination in the same tick.
C31_Witness ==
  /\ lastOp = "update"
  /\ ~drill.isRetracting
  /\ Pt(drill.x, drill.y) = getCurrentTileCenter(drill)
  /\ Pt(drill.currentTileX, drill.currentTileY) # entryTile
  /\ Pt(drill.intentDirX, drill.intentDirY) # Zero
  /\ Pt(drill.pendingDirX, drill.pendingDirY) = Zero
  /\ drill.destinationTile = TargetOf(drill, Pt(drill.intentDirX, drill.intentDirY))
  /\ Len(drill.tileTrail) >= 2

\* C32: in every reachable state, two setDirection calls in a row leave the
\* drill exactly as the second call alone does; a key press changes nothing
\* of the drill but the two direction fields, which both hold the key's
\* direction afterwards (nothing of an earlier press is kept); and the tick
\* after a key press gives the drill, level and callbacks that it gives when
\* any other key was pressed just before that one.
C32_DirectionsNotQueued ==
  /\ [](\A a \in Dirs, b \in Dirs :
          setDirection(setDirection(drill, a.x, a.y), b.x, b.y)
            = setDirection(drill, b.x, b.y))
  /\ [][(lastOp' = "setDirection" /\ ~drill.isRetracting)
          => \E b \in Dirs :
               drill' = [drill EXCEPT !.intentDirX = b.x, !.intentDirY = b.y,
                                      !.pendingDirX = b.x, !.pendingDirY = b.y]]_vars
  /\ [][(lastOp = "setDirection" /\ lastOp' = "update" /\ ~drill.isRetracting)
          => \A a \in Dirs, dt \in DTs :
               [drill |-> drill', level |-> level', calls |-> callbacks']
                 = update(level,
                          setDirection(setDirection(drill, a.x, a.y),
                                       drill.pendingDirX, drill.pendingDirY),
                          dt)]_vars

\* C32 witness: an arrow key has just been pressed while the drill was
\* between two tile centres with another direction still pending or held
\* before it: the fields hold the new direction only, which is not the
\* direction of travel.
C32_Witness ==
  /\ lastOp = "setDirection"
  /\ ~drill.isRetracting
  /\ drill.destinationTile # NoTile
  /\ Pt(drill.x, drill.y) # getCurrentTileCenter(drill)
  /\ Pt(drill.pendingDirX, drill.pendingDirY) = Pt(drill.intentDirX, drill.intentDirY)
  /\ Pt(drill.pendingDirX, drill.pendingDirY) # Pt(drill.dirX, drill.dirY)
  /\ Pt(drill.pendingDirX, drill.pendingDirY) # Zero

----------------------------------------------------------------------------
(* Claims on the grid, the retract key, lives and the score *)

\* C33: in every reachable state the grid has the raw map's dimensions,
\* every cell is a wall, open or a pellet (no spawn marker is left), every
\* wall of the constructed grid is a wall and the entry tile is not one; a
\* step that changes the level is an update tick and leaves the level that
\* removePelletAtTile gives for one pellet cell of the level before the step
\* (that cell is open afterwards, every other cell is as it was).
C33_OnlyPelletsChange ==
  /\ [](/\ DOMAIN level.tiles = 1..Height
        /\ \A r \in 1..Height : DOMAIN level.tiles[r] = 1..Width
        /\ \A rc \in (1..Height) \X (1..Width) :
             /\ level.tiles[rc[1]][rc[2]] \in {"#", ".", "O"}
             /\ level.tiles[rc[1]][rc[2]] = "#" <=> InitialTiles[rc[1]][rc[2]] = "#"
        /\ isTunnelTile(getTile(level, entryTile.x, entryTile.y)))
  /\ [][level' # level
          => /\ lastOp' = "update"
             /\ \E rc \in (1..Height) \X (1..Width) :
                  /\ level.tiles[rc[1]][rc[2]] = "O"
                  /\ level'.tiles[rc[1]][rc[2]] = "."
                  /\ level' = removePelletAtTile(level, rc[2] - 1, rc[1] - 1).level]_vars

\* C33 witness: a tick has just collected a pellet: its cell, a pellet in the
\* raw map, is open now, as the cells of the spawn markers are.
C33_Witness ==
  /\ lastOp = "update"
  /\ callbacks # <<>>
  /\ \E rc \in (1..Height) \X (1..Width) :
       /\ RawMap[rc[1]][rc[2]] = "O"
       /\ level.tiles[rc[1]][rc[2]] = "."
       /\ Pt(rc[2] - 1, rc[1] - 1) = HeadTile(drill)
  /\ \E rc \in (1..Height) \X (1..Width) :
       RawMap[rc[1]][rc[2]] = "E" /\ level.tiles[rc[1]][rc[2]] = "."

\* C34: a startRetract call on a drill that is already retracting leaves
\* every field of the drill, the retraction's held time included, as it was.
C34_RepeatedStartRetractKeepsDrill ==
  [][(lastOp' = "startRetract" /\ drill.isRetracting) => drill' = drill]_vars

\* C35: in every reachable state in which isRetracting is true, the
\* destination tile is absent and the velocity, the pending direction and
\* the intent direction are all zero.
C35_RetractingExcludesMoving ==
  drill.isRetracting
    => /\ drill.destinationTile = NoTile
       /\ Pt(drill.dirX, drill.dirY) = Zero
       /\ Pt(drill.pendingDirX, drill.pendingDirY) = Zero
       /\ Pt(drill.intentDirX, drill.intentDirY) = Zero

\* C35 witness: an arrow key has just been pressed during a retraction that
\* has run for at least one tick, the head between two tile centres and a
\* waypoint still between the anchor and the head.
C35_Witness ==
  /\ lastOp = "setDirection"
  /\ drill.isRetracting
  /\ drill.retractHoldTime > 0
  /\ Len(drill.pipePoints) >= 3
  /\ Pt(drill.x, drill.y) # getCurrentTileCenter(drill)

----------------------------------------------------------------------------
(* Late in a game: the state just after a lost life, few lives, pellets or
   seconds left *)

\* The level after removePelletAtTile has returned true for every pellet
\* tile but those in left.
LateLevel(left) ==
  [tiles |-> [r \in 1..Height |->
                [c \in 1..Width |->
                   IF InitialTiles[r][c] = "O" /\ Pt(c - 1, r - 1) \notin left
                     THEN "." ELSE InitialTiles[r][c]]],
   pelletCount |-> Cardinality(left)]

\* The games taken up: on the last life with one pellet left and the timer
\* run out earlier; with two lives and two pellets left, likewise; and on
\* the last life with no pellet collected and the timer about to run out
\* (two lives went to enemies).  The game then runs for 84 frames with no
\* key pressed, until the enemies reset by the lost life are about to pass
\* under the well.
LateGames ==
  LET pelletTiles == {Pt(rc[2] - 1, rc[1] - 1) : rc \in PelletCells(InitLevel)}
      idle == [script |-> "idle", start |-> 84]
  IN {[lives |-> 1, left |-> {Pt(12, 1)}, time |-> 0, expired |-> TRUE,
       opening |-> idle],
      [lives |-> 2, left |-> {Pt(12, 1), Pt(22, 1)}, time |-> 0, expired |-> TRUE,
       opening |-> idle],
      [lives |-> 1, left |-> pelletTiles,
       time |-> (idle.start + 4) * 100, expired |-> FALSE, opening |-> idle]}

\* PlayState.handleLifeLost has just run with lives left: a new drill, every
\* enemy reset, one life fewer; the level, the score and the timer are what
\* the game had come to.
InitLate ==
  \E g \in LateGames :
    /\ level = LateLevel(g.left)
    /\ drill = resetDrillAndPipe
    /\ score = PELLET_SCORE * (InitialPelletCount - Cardinality(g.left))
    /\ levelComplete = FALSE
    /\ callbacks = <<>>
    /\ lastOp = "handleLifeLost"
    /\ probe = NoProbe
    /\ lives = g.lives
    /\ remainingTime = g.time
    /\ timeExpired = g.expired
    /\ enemies = resetEnemies(NewEnemies(NoDraws, NoDraws, NoDraws), NoDraws)
    /\ gameOver = FALSE
    /\ frames = 0
    /\ opening = g.opening

SpecLate == InitLate /\ [][NextEnemy]_vars

C37_LevelCompletesOnce ==
  /\ [](levelComplete <=> level.pelletCount = 0)
  /\ [][/\ (~levelComplete /\ levelComplete')
             <=> (level.pelletCount > 0 /\ level'.pelletCount = 0)
        /\ levelComplete => levelComplete'
        /\ score' >= score
        /\ (~levelComplete /\ levelComplete')
             => \E kills \in 0..EnemyCount :
                  score' = score + PELLET_SCORE + LEVEL_COMPLETE_BONUS
                             + ENEMY_SCORE * kills
        /\ ~(~levelComplete /\ levelComplete')
             => score' - score < LEVEL_COMPLETE_BONUS]_vars

\* C37 witness: the frame that collected the last pellet has set
\* levelComplete and paid the bonus, after an enemy had been destroyed.
C37_Witness ==
  /\ lastOp = "PlayState.update"
  /\ levelComplete
  /\ callbacks # <<>>
  /\ level.pelletCount = 0
  /\ score >= PELLET_SCORE * InitialPelletCount + LEVEL_COMPLETE_BONUS + ENEMY_SCORE

\* C38: in every reachable state the pending direction is the zero vector or
\* equal to the intent direction.
C38_PendingIsZeroOrIntent ==
  \/ Pt(drill.pendingDirX, drill.pendingDirY) = Zero
  \/ Pt(drill.pendingDirX, drill.pendingDirY) = Pt(drill.intentDirX, drill.intentDirY)

\* C38 witness: a tick has rejected the pending direction and then the
\* intent direction, which is the same one: the drill is idle at a tile
\* away from the entry tile with both still set and blocked.
C38_Witness ==
  /\ lastOp = "update"
  /\ IdleAtTile(drill)
  /\ Pt(drill.currentTileX, drill.currentTileY) # entryTile
  /\ Pt(drill.pendingDirX, drill.pendingDirY) # Zero
  /\ Pt(drill.pendingDirX, drill.pendingDirY) = Pt(drill.intentDirX, drill.intentDirY)
  /\ Blocked(level, drill, Pt(drill.intentDirX, drill.intentDirY))
  /\ Len(drill.tileTrail) >= 2

====
